---- MODULE Spec2Model ----
(***************************************************************************)
(* A model of the catalogue backend in src/api: the product <-> filter     *)
(* option links (ProductFilterValue) written by product create/update, the *)
(* product listing filtered by facets, the category facet listing, the     *)
(* dimension merge of the product serializer, the validation and the       *)
(* storage of the variants of a product (images, sizes, styles), the       *)
(* orders (their creation with items, the mark_* actions, update, delete), *)
(* the reviews and their visibility, the product write as a whole (name    *)
(* and slug, mattresses, dimension-template link), and two updates of one  *)
(* product served at the same time.                                        *)
(*                                                                         *)
(* Text that the code parses or trims (query parameter values, dimension   *)
(* names and values) is a sequence of one-character strings, so that       *)
(* split(",") and strip() are computed and not assumed.                    *)
(***************************************************************************)
EXTENDS Integers, Sequences, FiniteSets, TLC

VARIABLES
    atomicRequests,  \* database setting ATOMIC_REQUESTS (settings are not in src/)
    product,         \* Product table: id -> [category, in_stock, dimensions]
    pfv,             \* ProductFilterValue table: set of rows [id, product, filter_option]
    nextPfvId,       \* next auto-increment id of ProductFilterValue
    categoryFilter,  \* CategoryFilter table: sequence of rows, the row id is the index
    dimensionRow,    \* DimensionRow table: sequence of rows, the row id is the index
    templateLink,    \* ProductDimensionTemplate: product id -> template id (at most one)
    productImage,    \* ProductImage table: set of rows [id, product, url]
    productSize,     \* ProductSize table: set of rows [id, product, name, description, price_delta]
    productStyle,    \* ProductStyle table: set of rows [id, product, size, name, ...]
    productMattress, \* ProductMattress table: set of rows [id, product, source_product, name]
    orders,          \* Order table: id -> [user, first_name, total_amount, status]
    orderItem,       \* OrderItem table: set of rows [id, order, product, quantity, ...]
    review,          \* Review table: id -> [product, is_visible, created_by]
    inflight,        \* product updates being served: request -> [pc, p, images, ...]
    nextId,          \* next auto-increment ids: [product, image, size, style, order, item, ...]
    lastReq,         \* the request served last
    resp             \* its response

\* The variant tables, the order tables and the id counters.
variantVars == <<productImage, productSize, productStyle, productMattress>>

orderVars == <<orders, orderItem>>

vars == <<atomicRequests, product, pfv, nextPfvId, categoryFilter, dimensionRow,
          templateLink, variantVars, orderVars, review, inflight, nextId, lastReq, resp>>

(***************************************************************************)
(* Bounds of the model.                                                    *)
(***************************************************************************)
MaxPfvId == 3
MaxFilterValues == 3
MaxParamLen == 3
MaxCategoryFilters == 2
MaxOverrides == 2
MaxTemplateRows == 2
MaxImageId == 2
MaxSizeId == 4
MaxStyleId == 2
MaxImages == 1
MaxSizes == 2
MaxStyles == 1
MaxOrderId == 2
MaxItemId == 2
MaxItems == 2
MaxReviewId == 2
MaxProductId == 3
MaxMattressId == 2

(***************************************************************************)
(* Sequence helpers.                                                       *)
(***************************************************************************)
SeqsUpTo(S, n) == UNION {[1..k -> S] : k \in 0..n}

Range(s) == {s[i] : i \in 1..Len(s)}

RECURSIVE SeqOfSet(_)
SeqOfSet(S) == IF S = {} THEN <<>>
               ELSE LET x == CHOOSE y \in S : TRUE IN <<x>> \o SeqOfSet(S \ {x})

(***************************************************************************)
(* Fixed catalogue data (admin-authored): categories, filter types and     *)
(* filter options.                                                         *)
(***************************************************************************)
\* The ids the Product table hands out.
ProductIds == {1, 2}

\* Category rows (slug is unique); "sofas" has no product in most runs.
Categories == {"beds", "sofas"}

\* FilterType rows: slug -> fields.  "material" is switched off.
FilterType ==
    [ colour   |-> [id |-> 1, name |-> "Colour",   display_order |-> 0,
                    is_active |-> TRUE,  is_default |-> FALSE],
      size     |-> [id |-> 2, name |-> "Bed Size", display_order |-> 0,
                    is_active |-> TRUE,  is_default |-> TRUE],
      material |-> [id |-> 3, name |-> "Material", display_order |-> 1,
                    is_active |-> FALSE, is_default |-> FALSE] ]

FilterTypeSlugs == DOMAIN FilterType

\* FilterOption rows: id -> fields.  The slug is unique per filter type only:
\* options 1, 3 and 4 share the slug "a" under three different types.
FilterOption ==
    [ o \in 1..4 |->
        CASE o = 1 -> [filter_type |-> "colour",   slug |-> <<"a">>, is_active |-> TRUE]
          [] o = 2 -> [filter_type |-> "colour",   slug |-> <<"b">>, is_active |-> FALSE]
          [] o = 3 -> [filter_type |-> "size",     slug |-> <<"a">>, is_active |-> TRUE]
          [] o = 4 -> [filter_type |-> "material", slug |-> <<"a">>, is_active |-> TRUE] ]

FilterOptionIds == DOMAIN FilterOption

(***************************************************************************)
(* ProductFilterValue and its synchronisation on product write.            *)
(***************************************************************************)
\* The rows of product p, and the options they link.
LinksOf(rows, p) == {r \in rows : r.product = p}

LinkedOptions(rows, p) == {r.filter_option : r \in LinksOf(rows, p)}

\* Mutant: the unique_together constraint dropped from the table.
UniqueTogetherDropped(rows, p, o) == TRUE

\* Meta.unique_together = ['product', 'filter_option']: may a row (p, o) be inserted?
UniqueTogether(rows, p, o) ==
    ~ \E r \in rows : r.product = p /\ r.filter_option = o

\* One payload entry is a dict {"filter_option": id} or a bare id.
\* opt_id = fv.get("filter_option") if isinstance(fv, dict) else fv
OptId(fv) == IF fv.dict THEN fv.filter_option ELSE fv.bare

\* The loop body of _handle_filter_values: falsy ids and ids of no FilterOption
\* are skipped, the others are collected in order (repeats included).
RECURSIVE Cleaned(_)
Cleaned(fvs) ==
    IF fvs = <<>> THEN <<>>
    ELSE LET opt_id == OptId(Head(fvs))
         IN  IF opt_id = 0 \/ opt_id \notin FilterOptionIds
             THEN Cleaned(Tail(fvs))
             ELSE <<opt_id>> \o Cleaned(Tail(fvs))

\* ProductFilterValue.objects.create for each option in turn; the insert that
\* breaks unique_together raises IntegrityError and ends the loop.
RECURSIVE CreateLinks(_, _, _, _)
CreateLinks(rows, nid, p, opts) ==
    IF opts = <<>> THEN [rows |-> rows, next |-> nid, ok |-> TRUE]
    ELSE IF UniqueTogether(rows, p, Head(opts))
         THEN CreateLinks(rows \cup {[id |-> nid, product |-> p,
                                      filter_option |-> Head(opts)]},
                          nid + 1, p, Tail(opts))
         ELSE [rows |-> rows, next |-> nid, ok |-> FALSE]

\* ProductViewSet._handle_filter_values: delete every link of the product, then
\* create one link per cleaned option.
HandleFilterValues(rows, nid, p, fvs) ==
    CreateLinks(rows \ LinksOf(rows, p), nid, p, Cleaned(fvs))

\* ProductWriteSerializer._sync_filter_values: the ids of the payload, the links
\* to other options deleted, the ids not linked yet bulk-created (a repeated id
\* or the id of no FilterOption breaks a constraint).
RECURSIVE SyncIds(_)
SyncIds(fvs) ==
    IF fvs = <<>> THEN <<>>
    ELSE LET option_id == IF Head(fvs).dict THEN Head(fvs).filter_option ELSE 0
         IN  IF option_id # 0 THEN <<option_id>> \o SyncIds(Tail(fvs))
             ELSE SyncIds(Tail(fvs))

SyncFilterValues(rows, nid, p, fvs) ==
    LET ids      == SyncIds(fvs)
        kept     == {r \in rows : r.product # p \/ r.filter_option \in Range(ids)}
        existing == LinkedOptions(kept, p)
        toCreate == SelectSeq(ids, LAMBDA pid : pid \notin existing)
    IN  IF \E i \in 1..Len(toCreate) : toCreate[i] \notin FilterOptionIds
        THEN [rows |-> kept, next |-> nid, ok |-> FALSE]
        ELSE CreateLinks(kept, nid, p, toCreate)

(***************************************************************************)
(* Requests and responses.                                                 *)
(***************************************************************************)
NoReq == [op |-> "none"]

NoResp == [status |-> 0]

\* The id counters of a database that holds n products and no other rows.
FirstIds(n) ==
    [product |-> n + 1, image |-> 1, size |-> 1, style |-> 1, order |-> 1, item |-> 1,
     mattress |-> 1, review |-> 1]

\* The payload entries of filter_values: option 1 as a bare id, option 2 as a
\* dict, and the id of no FilterOption.
FilterValueEntries ==
    {[dict |-> FALSE, bare |-> i, filter_option |-> 0] : i \in {1, 5}}
    \cup {[dict |-> TRUE, bare |-> 0, filter_option |-> 2]}

FilterValueLists == SeqsUpTo(FilterValueEntries, MaxFilterValues)

\* ProductDimensionTemplate.objects.filter(product=product).delete()
WithoutLink(links, p) ==
    IF p \in DOMAIN links THEN [q \in DOMAIN links \ {p} |-> links[q]] ELSE links

NewProduct(cat, stock) == [category |-> cat, in_stock |-> stock, dimensions |-> <<>>]

(***************************************************************************)
(* Product create and update (the part that writes the filter links).      *)
(***************************************************************************)
\* ProductViewSet.create: the product row is saved, the serializer's create runs
\* _sync_filter_values with the empty list (the view popped filter_values from
\* the data), then _handle_filter_values runs with the popped list ([] when the
\* key is absent).
CreateProduct(cat, stock, has_fv, fvs) ==
    /\ Len(product) < Cardinality(ProductIds)
    /\ LET p      == Len(product) + 1
           synced == SyncFilterValues(pfv, nextPfvId, p, <<>>)
       IN  \E handled \in {HandleFilterValues(synced.rows, synced.next, p,
                                               IF has_fv THEN fvs ELSE <<>>)} :
           \E rollback \in {~(synced.ok /\ handled.ok) /\ atomicRequests} :
               /\ handled.next <= MaxPfvId + 1
               /\ product' = IF rollback THEN product
                             ELSE Append(product, NewProduct(cat, stock))
               /\ pfv' = IF rollback THEN pfv ELSE handled.rows
               /\ nextPfvId' = IF rollback THEN nextPfvId ELSE handled.next
               /\ lastReq' = [op |-> "create", p |-> p, has_fv |-> has_fv, fv |-> fvs]
               /\ resp' = [status |-> IF synced.ok /\ handled.ok THEN 201 ELSE 500]
    /\ nextId' = [nextId EXCEPT !.product = Len(product') + 1]
    /\ UNCHANGED <<atomicRequests, inflight, review, categoryFilter, dimensionRow,
                   templateLink, variantVars, orderVars>>

\* ProductViewSet.update: get_object answers 404 for an unknown id; the links
\* are rewritten by _handle_filter_values only when the payload has the key
\* (the serializer's update never sees it: the view popped it).
UpdateProduct(p, has_fv, fvs) ==
    /\ \E found \in {p \in DOMAIN product} :
       \E handled \in {IF found /\ has_fv
                        THEN HandleFilterValues(pfv, nextPfvId, p, fvs)
                        ELSE [rows |-> pfv, next |-> nextPfvId, ok |-> TRUE]} :
       \E rollback \in {~handled.ok /\ atomicRequests} :
           /\ handled.next <= MaxPfvId + 1
           /\ pfv' = IF rollback THEN pfv ELSE handled.rows
           /\ nextPfvId' = IF rollback THEN nextPfvId ELSE handled.next
           /\ lastReq' = [op |-> "update", p |-> p, has_fv |-> has_fv, fv |-> fvs]
           /\ resp' = [status |-> IF ~found THEN 404
                                  ELSE IF handled.ok THEN 200 ELSE 500]
           /\ templateLink' = IF found /\ handled.ok
                               THEN WithoutLink(templateLink, p) ELSE templateLink
    /\ UNCHANGED <<atomicRequests, inflight, review, product, categoryFilter, dimensionRow,
                   variantVars, orderVars, nextId>>

(***************************************************************************)
(* SpecSync: product writes with filter_values.                            *)
(***************************************************************************)
InitSync ==
    /\ atomicRequests \in BOOLEAN
    /\ product = <<>>
    /\ pfv = {}
    /\ nextPfvId = 1
    /\ categoryFilter = <<>>
    /\ dimensionRow = <<>>
    /\ templateLink = <<>>
    /\ productImage = {}
    /\ productSize = {}
    /\ productStyle = {}
    /\ productMattress = {}
    /\ orders = <<>>
    /\ orderItem = {}
    /\ review = <<>>
    /\ inflight = <<>>
    /\ nextId = FirstIds(Len(product))
    /\ lastReq = NoReq
    /\ resp = NoResp

NextSync ==
    \/ \E has_fv \in BOOLEAN :
           \E fvs \in (IF has_fv THEN FilterValueLists ELSE {<<>>}) :
               CreateProduct("beds", TRUE, has_fv, fvs)
    \/ \E p \in ProductIds, has_fv \in BOOLEAN :
           \E fvs \in (IF has_fv THEN FilterValueLists ELSE {<<>>}) :
               UpdateProduct(p, has_fv, fvs)

SpecSync == InitSync /\ [][NextSync]_vars

(***************************************************************************)
(* Product listing: ProductViewSet.get_queryset.                           *)
(***************************************************************************)
\* str.split(","): the pieces between the commas, empty pieces included.
RECURSIVE Split(_)
Split(s) ==
    IF \A i \in 1..Len(s) : s[i] # "," THEN <<s>>
    ELSE LET i == CHOOSE k \in 1..Len(s) :
                      s[k] = "," /\ \A j \in 1..(k - 1) : s[j] # ","
         IN  <<SubSeq(s, 1, i - 1)>> \o Split(SubSeq(s, i + 1, Len(s)))

\* Mutant: the is_active test left out of the loop over the filter types.
AllFilterTypes == FilterTypeSlugs

\* FilterType.objects.filter(is_active=True)
ActiveFilterTypes == {ft \in FilterTypeSlugs : FilterType[ft].is_active}

\* Product.objects.all().order_by("-created_at"): newest (highest id) first.
AllProducts(prods) == [i \in 1..Len(prods) |-> Len(prods) + 1 - i]

\* The rows of pfv joined to product p that satisfy, on one and the same row,
\* filter_option__slug__in=option_slugs and filter_option__filter_type=ft.
JoinedRows(rows, p, option_slugs, ft) ==
    {r \in LinksOf(rows, p) :
        /\ FilterOption[r.filter_option].slug \in Range(option_slugs)
        /\ FilterOption[r.filter_option].filter_type = ft}

\* queryset.filter(filter_values__...): an inner join, so a product is repeated
\* once per joined row and dropped when there is none.
RECURSIVE FilterJoin(_, _, _, _)
FilterJoin(qs, rows, option_slugs, ft) ==
    IF qs = <<>> THEN <<>>
    ELSE [i \in 1..Cardinality(JoinedRows(rows, Head(qs), option_slugs, ft))
              |-> Head(qs)]
         \o FilterJoin(Tail(qs), rows, option_slugs, ft)

\* Mutant: .distinct() left out.
DistinctDropped(qs) == qs

\* .distinct(): every product once, at its first place.
RECURSIVE Distinct(_)
Distinct(qs) ==
    IF qs = <<>> THEN <<>>
    ELSE <<Head(qs)>> \o Distinct(SelectSeq(Tail(qs), LAMBDA x : x # Head(qs)))

\* The loop over the active filter types: a type whose parameter is absent or
\* empty is skipped.
RECURSIVE ApplyFilters(_, _, _, _)
ApplyFilters(qs, rows, params, fts) ==
    IF fts = <<>> THEN qs
    ELSE LET ft            == Head(fts)
             filter_values == IF ft \in DOMAIN params THEN params[ft] ELSE <<>>
         IN  IF filter_values # <<>>
             THEN ApplyFilters(Distinct(FilterJoin(qs, rows, Split(filter_values), ft)),
                               rows, params, Tail(fts))
             ELSE ApplyFilters(qs, rows, params, Tail(fts))

\* get_queryset: the category parameter, then the dynamic filters.
GetQueryset(prods, rows, params) ==
    LET category == params["category"]
        base     == IF category # ""
                    THEN SelectSeq(AllProducts(prods),
                                   LAMBDA p : prods[p].category = category)
                    ELSE AllProducts(prods)
    IN  ApplyFilters(base, rows, params, SeqOfSet(ActiveFilterTypes))

\* GET /products/?...: a listing reads the tables and changes none, so one
\* listing per behaviour stands for every listing.
ListProducts(params) ==
    /\ lastReq = NoReq
    /\ lastReq' = [op |-> "list", params |-> params]
    /\ resp' = [status |-> 200, results |-> GetQueryset(product, pfv, params)]
    /\ UNCHANGED <<atomicRequests, inflight, review, product, pfv, nextPfvId, categoryFilter,
                   variantVars, orderVars, nextId,
                   dimensionRow, templateLink>>

(***************************************************************************)
(* SpecList: the listing over every table of links.                        *)
(***************************************************************************)
\* The characters of a parameter value, and the values of the model.
ParamChars == {"a", "b", ","}

ParamValues == SeqsUpTo(ParamChars, MaxParamLen)

\* The values of the second parameter: absent, one slug, a lone comma.
SecondParamValues == {<<>>, <<"a">>, <<"b">>, <<",">>}

\* The query strings: a value for each active filter type, and at most one
\* parameter more: the slug of the inactive type, a name that is no filter
\* type's slug, or the category.
Queries ==
    {[colour |-> c, size |-> z, material |-> x[1], q |-> x[2], category |-> x[3]] :
        c \in ParamValues,
        z \in SecondParamValues,
        x \in {<< <<>>, <<>>, "" >>, << <<"a">>, <<>>, "" >>,
               << <<>>, <<"a">>, "" >>, << <<>>, <<>>, "beds" >>}}

\* A ProductFilterValue table with the pairs of S, ids in a fixed order.
RowsOf(S) ==
    LET order == SeqOfSet(S)
    IN  {[id |-> i, product |-> order[i][1], filter_option |-> order[i][2]] :
            i \in 1..Len(order)}

InitList ==
    /\ atomicRequests \in {FALSE}
    /\ product = <<NewProduct("beds", TRUE), NewProduct("sofas", TRUE)>>
    /\ \E S \in SUBSET (ProductIds \X FilterOptionIds) :
           /\ pfv = RowsOf(S)
           /\ nextPfvId = Cardinality(S) + 1
    /\ categoryFilter = <<>>
    /\ dimensionRow = <<>>
    /\ templateLink = <<>>
    /\ productImage = {}
    /\ productSize = {}
    /\ productStyle = {}
    /\ productMattress = {}
    /\ orders = <<>>
    /\ orderItem = {}
    /\ review = <<>>
    /\ inflight = <<>>
    /\ nextId = FirstIds(Len(product))
    /\ lastReq = NoReq
    /\ resp = NoResp

NextList == \E params \in Queries : ListProducts(params)

SpecList == InitList /\ [][NextList]_vars

(***************************************************************************)
(* Category facet listing: CategoryFiltersView.get.                        *)
(***************************************************************************)
\* SubCategory rows: slug -> its category.
SubCategory == [bunk |-> [category |-> "beds"], corner |-> [category |-> "sofas"]]

\* Q(category=category) | Q(subcategory__category=category), is_active=True:
\* the ids (indexes) of the CategoryFilter rows in scope of the category.
RowsInScope(cfs, category) ==
    {i \in 1..Len(cfs) :
        /\ cfs[i].is_active
        /\ \/ cfs[i].category = category
           \/ /\ cfs[i].subcategory # ""
              /\ SubCategory[cfs[i].subcategory].category = category}

\* Mutant: order_by('display_order') left out, the rows come in any order.
AnyOrder(cfs, order) == TRUE

\* .order_by('display_order'): the display orders do not decrease along the
\* rows; the database orders rows with equal display_order as it likes.
OrderedByDisplayOrder(cfs, order) ==
    \A i \in 1..Len(order) : \A j \in 1..Len(order) :
        i < j => cfs[order[i]].display_order <= cfs[order[j]].display_order

\* The orders in which the database may return the rows of S.
OrderingsOf(cfs, S) ==
    {order \in [1..Cardinality(S) -> S] :
        /\ \A i \in 1..Cardinality(S) : \A j \in 1..Cardinality(S) :
               order[i] = order[j] => i = j
        /\ OrderedByDisplayOrder(cfs, order)}

\* Mutant: the seen_ids test left out of the collection loop.
CollectEvery(cfs, order, seen_ids) ==
    [i \in 1..Len(order) |-> cfs[order[i]].filter_type]

\* "Collect unique filter types": the filter type of each row in turn, kept
\* when it is active and its id is not in seen_ids yet.
RECURSIVE CollectFilterTypes(_, _, _)
CollectFilterTypes(cfs, order, seen_ids) ==
    IF order = <<>> THEN <<>>
    ELSE LET ft == cfs[Head(order)].filter_type
         IN  IF FilterType[ft].is_active /\ FilterType[ft].id \notin seen_ids
             THEN <<ft>> \o CollectFilterTypes(cfs, Tail(order),
                                               seen_ids \cup {FilterType[ft].id})
             ELSE CollectFilterTypes(cfs, Tail(order), seen_ids)

\* The options of a filter type in Meta.ordering (the option id stands for
\* display_order, name).
RECURSIVE Ascending(_)
Ascending(S) ==
    IF S = {} THEN <<>>
    ELSE LET m == CHOOSE x \in S : \A y \in S : x <= y
         IN  <<m>> \o Ascending(S \ {m})

OptionsOf(ft) == Ascending({o \in FilterOptionIds : FilterOption[o].filter_type = ft})

\* ProductFilterValue.objects.filter(filter_option=option,
\*     product__category=category, product__in_stock=True)
\*     .values('product').distinct().count()
ProductCount(prods, rows, option, category) ==
    Cardinality({r.product : r \in {x \in rows :
        /\ x.filter_option = option
        /\ x.product \in DOMAIN prods
        /\ prods[x.product].category = category
        /\ prods[x.product].in_stock}})

\* The annotation loop: product_count is set on the instances that
\* ft.options.filter(is_active=True) loads, one new instance per active option.
Annotated(prods, rows, fts, category) ==
    [inst \in {<<"filter", o>> : o \in {x \in FilterOptionIds :
                  /\ FilterOption[x].is_active
                  /\ FilterOption[x].filter_type \in Range(fts)}}
        |-> ProductCount(prods, rows, inst[2], category)]

\* FilterOptionSerializer.get_product_count: getattr(obj, 'product_count', 0)
GetProductCount(inst, annotated) ==
    IF inst \in DOMAIN annotated THEN annotated[inst] ELSE 0

\* FilterTypeSerializer: the nested options field serializes ft.options.all(),
\* the instances that prefetch_related('filter_type__options') loaded.
SerializeFilterType(ft, annotated) ==
    [slug |-> ft,
     options |-> [k \in 1..Len(OptionsOf(ft)) |->
                     [id |-> OptionsOf(ft)[k],
                      product_count |->
                          GetProductCount(<<"prefetch", OptionsOf(ft)[k]>>, annotated)]]]

\* GET /categories/{slug}/filters/ (a read: one per behaviour, as the listing).
GetCategoryFilters(category_slug) ==
    /\ lastReq = NoReq
    /\ lastReq' = [op |-> "facets", category |-> category_slug]
    /\ IF category_slug \notin Categories
       THEN resp' = [status |-> 404]
       ELSE \E order \in OrderingsOf(categoryFilter,
                                     RowsInScope(categoryFilter, category_slug)) :
            \E filter_types \in {CollectFilterTypes(categoryFilter, order, {})} :
            \E annotated \in {Annotated(product, pfv, filter_types, category_slug)} :
                resp' = [status |-> 200,
                         filters |-> [k \in 1..Len(filter_types) |->
                                         SerializeFilterType(filter_types[k], annotated)]]
    /\ UNCHANGED <<atomicRequests, inflight, review, product, pfv, nextPfvId, categoryFilter,
                   variantVars, orderVars, nextId,
                   dimensionRow, templateLink>>

(***************************************************************************)
(* SpecFacets: the facet listing over every small CategoryFilter table.    *)
(***************************************************************************)
\* The rows an admin may save: linked to the category "beds", to a subcategory
\* of "beds", or to a subcategory of "sofas".
CategoryFilterTargets ==
    {[category |-> "beds", subcategory |-> ""],
     [category |-> "", subcategory |-> "bunk"],
     [category |-> "", subcategory |-> "corner"]}

CategoryFilterRows ==
    {[category |-> t.category, subcategory |-> t.subcategory, filter_type |-> ft,
      display_order |-> d, is_active |-> a] :
        t \in CategoryFilterTargets, ft \in FilterTypeSlugs, d \in {0, 1},
        a \in BOOLEAN}

InitFacets ==
    /\ atomicRequests \in {FALSE}
    /\ product = <<NewProduct("beds", TRUE), NewProduct("beds", TRUE)>>
    /\ \E S \in SUBSET ({1, 2} \X {1}) :
           /\ pfv = RowsOf(S)
           /\ nextPfvId = Cardinality(S) + 1
    /\ categoryFilter \in SeqsUpTo(CategoryFilterRows, MaxCategoryFilters)
    /\ dimensionRow = <<>>
    /\ templateLink = <<>>
    /\ productImage = {}
    /\ productSize = {}
    /\ productStyle = {}
    /\ productMattress = {}
    /\ orders = <<>>
    /\ orderItem = {}
    /\ review = <<>>
    /\ inflight = <<>>
    /\ nextId = FirstIds(Len(product))
    /\ lastReq = NoReq
    /\ resp = NoResp

NextFacets == \E slug \in Categories \cup {"rugs"} : GetCategoryFilters(slug)

SpecFacets == InitFacets /\ [][NextFacets]_vars

(***************************************************************************)
(* Dimensions: the cleaning on write (ProductWriteSerializer.validate) and *)
(* the merge on read (ProductSerializer._merge_dimensions).                *)
(***************************************************************************)
\* str.strip(): the blanks at both ends removed.
RECURSIVE Strip(_)
Strip(s) ==
    IF s = <<>> THEN s
    ELSE IF Head(s) = " " THEN Strip(Tail(s))
    ELSE IF s[Len(s)] = " " THEN Strip(SubSeq(s, 1, Len(s) - 1))
    ELSE s

\* cleaned_values: the keys stripped (empty keys dropped), the values stripped.
CleanValues(values) ==
    [size_key \in {Strip(k) : k \in DOMAIN values} \ {<<>>} |->
        Strip(values[CHOOSE k \in DOMAIN values : Strip(k) = size_key])]

\* validate: the rows without a measurement or without a cleaned value are
\* dropped, the others are kept in order (rows of one name are all kept).
RECURSIVE CleanDimensions(_)
CleanDimensions(raw_dimensions) ==
    IF raw_dimensions = <<>> THEN <<>>
    ELSE LET row         == Head(raw_dimensions)
             measurement == Strip(row.measurement)
             cleaned     == CleanValues(row.values)
         IN  IF measurement = <<>> \/ DOMAIN cleaned = {}
             THEN CleanDimensions(Tail(raw_dimensions))
             ELSE <<[measurement |-> measurement, values |-> cleaned]>>
                  \o CleanDimensions(Tail(raw_dimensions))

\* template.rows.all().order_by("display_order"): the rows of the template in
\* an order in which display_order does not decrease (equal display orders come
\* as the database likes).
TemplateOrderings(rows, template) ==
    LET ids == {i \in 1..Len(rows) : rows[i].template = template}
    IN  {order \in [1..Cardinality(ids) -> ids] :
            /\ \A i \in 1..Cardinality(ids) : \A j \in 1..Cardinality(ids) :
                   order[i] = order[j] => i = j
            /\ \A i \in 1..Cardinality(ids) : \A j \in 1..Cardinality(ids) :
                   i < j => rows[order[i]].display_order <= rows[order[j]].display_order}

\* override_map = {row.get("measurement"): row.get("values", {}) ...}: a dict
\* keeps a key at the place of its first insertion and the value of its last.
OverrideNames(override_rows) ==
    Distinct([i \in 1..Len(override_rows) |-> override_rows[i].measurement])

OverrideValues(override_rows, measurement) ==
    override_rows[CHOOSE i \in 1..Len(override_rows) :
        /\ override_rows[i].measurement = measurement
        /\ \A j \in (i + 1)..Len(override_rows) :
               override_rows[j].measurement # measurement].values

\* Mutant: the "if v" of the update left out.
AnyValue(v) == TRUE

\* {k: v for k, v in ... if v}: only a non-empty value overrides.
Truthy(v) == v # <<>>

\* values.update({k: v for k, v in override.items() if v})
Updated(values, override) ==
    [k \in DOMAIN values \cup {x \in DOMAIN override : Truthy(override[x])} |->
        IF k \in DOMAIN override /\ Truthy(override[k]) THEN override[k]
        ELSE values[k]]

\* The first loop: one merged row per template row.
MergedTemplate(rows, order, override_rows) ==
    [i \in 1..Len(order) |->
        LET row == rows[order[i]]
        IN  [measurement |-> row.measurement,
             values |-> IF row.measurement \in Range(OverrideNames(override_rows))
                        THEN Updated(row.values,
                                     OverrideValues(override_rows, row.measurement))
                        ELSE row.values]]

\* Mutant: the test of the second loop left out, every override is appended.
NeverInMerged(merged, measurement) == FALSE

\* any(r["measurement"] == measurement for r in merged)
InMerged(merged, measurement) ==
    \E i \in 1..Len(merged) : merged[i].measurement = measurement

\* The second loop: the overrides whose name is in no merged row are appended.
RECURSIVE AppendOverrides(_, _, _)
AppendOverrides(merged, names, override_rows) ==
    IF names = <<>> THEN merged
    ELSE IF InMerged(merged, Head(names))
         THEN AppendOverrides(merged, Tail(names), override_rows)
         ELSE AppendOverrides(
                  Append(merged, [measurement |-> Head(names),
                                  values |-> OverrideValues(override_rows, Head(names))]),
                  Tail(names), override_rows)

\* _merge_dimensions for a product whose template rows come in `order`
\* (the empty order when the product has no dimension_template_link).
MergeDimensions(rows, order, override_rows) ==
    AppendOverrides(MergedTemplate(rows, order, override_rows),
                    OverrideNames(override_rows), override_rows)

\* GET /products/{id}/: ProductSerializer.get_computed_dimensions (a read: one
\* per behaviour).
RetrieveProduct(p) ==
    /\ lastReq = NoReq
    /\ lastReq' = [op |-> "retrieve", p |-> p]
    /\ IF p \notin DOMAIN product
       THEN resp' = [status |-> 404]
       ELSE \E order \in (IF p \in DOMAIN templateLink
                          THEN TemplateOrderings(dimensionRow, templateLink[p])
                          ELSE {<<>>}) :
                resp' = [status |-> 200,
                         template_order |-> order,
                         computed_dimensions |->
                             MergeDimensions(dimensionRow, order, product[p].dimensions)]
    /\ UNCHANGED <<atomicRequests, inflight, review, product, pfv, nextPfvId, categoryFilter,
                   variantVars, orderVars, nextId,
                   dimensionRow, templateLink>>

(***************************************************************************)
(* SpecDims: the merge over small templates and override lists.            *)
(***************************************************************************)
\* The `values` dicts of the payload: a value, a blank value under a key with
\* a blank before it, a blank and a value, a value for the second size, and
\* the empty dict.
RawValueMaps ==
    { (<<"S">> :> <<"2">>),
      (<<" ", "S">> :> <<" ">>),
      (<<"S">> :> <<>>) @@ (<<"D">> :> <<"2">>),
      (<<"D">> :> <<"2", " ">>),
      [k \in {} |-> <<>>] }

\* The rows of the `dimensions` payload; the blank measurement is dropped.
RawDimensionRows ==
    {[measurement |-> m, values |-> v] :
        m \in {<<"L">>, <<" ", "W">>, <<" ">>}, v \in RawValueMaps}

\* The DimensionRow rows of template 1 an admin may save.
TemplateRows ==
    {[template |-> 1, measurement |-> m, values |-> v, display_order |-> d] :
        m \in {<<"L">>, <<"W">>},
        v \in {(<<"S">> :> <<"1">>), (<<"S">> :> <<"1">>) @@ (<<"D">> :> <<"1">>)},
        d \in {0, 1}}

InitDims ==
    /\ atomicRequests \in {FALSE}
    /\ \E raw \in SeqsUpTo(RawDimensionRows, MaxOverrides) :
           product = <<[category |-> "beds", in_stock |-> TRUE,
                        dimensions |-> CleanDimensions(raw)]>>
    /\ pfv = {}
    /\ nextPfvId = 1
    /\ categoryFilter = <<>>
    /\ dimensionRow \in SeqsUpTo(TemplateRows, MaxTemplateRows)
    /\ templateLink \in {<<>>, <<1>>}
    /\ productImage = {}
    /\ productSize = {}
    /\ productStyle = {}
    /\ productMattress = {}
    /\ orders = <<>>
    /\ orderItem = {}
    /\ review = <<>>
    /\ inflight = <<>>
    /\ nextId = FirstIds(Len(product))
    /\ lastReq = NoReq
    /\ resp = NoResp

NextDims == \E p \in ProductIds : RetrieveProduct(p)

SpecDims == InitDims /\ [][NextDims]_vars

(***************************************************************************)
(* Variant Normalizer: ProductViewSet._validate_related_data for images,   *)
(* sizes and styles (videos and colors are checked like images, fabrics    *)
(* and mattresses like sizes).  A value of the JSON payload is a record    *)
(* tagged with its kind; a decimal is an integer number of thousandths.    *)
(***************************************************************************)
\* max_length of ProductImage.url, ProductSize.name, ProductSize.description
\* and ProductStyle.name.
ImageUrlMax == 1000
SizeNameMax == 50
SizeDescMax == 255
StyleNameMax == 100

\* What a validation step answers: the cleaned entries, a ValidationError
\* keyed by a field, or an exception nothing catches.
Cleaned200(cleaned) == [err |-> "ok", field |-> "", cleaned |-> cleaned]
Invalid400(field) == [err |-> "invalid", field |-> field, cleaned |-> <<>>]
Crash500 == [err |-> "crash", field |-> "", cleaned |-> <<>>]

\* An entry put before the cleaned entries of the rest, unless the rest failed.
Cons(entry, rest) ==
    IF rest.err = "ok" THEN Cleaned200(<<entry>> \o rest.cleaned) ELSE rest

\* cleaned_images: None counts as {}, a blank url is skipped, a url longer than
\* the column is an error; an entry that is a string has no .get.
RECURSIVE ValidateImages(_)
ValidateImages(images) ==
    IF images = <<>> THEN Cleaned200(<<>>)
    ELSE LET img == Head(images)
             url == IF img.kind = "dict" THEN Strip(img.url) ELSE <<>>
         IN  IF img.kind = "str" THEN Crash500
             ELSE IF url = <<>> THEN ValidateImages(Tail(images))
             ELSE IF Len(url) > ImageUrlMax THEN Invalid400("images")
             ELSE Cons([url |-> url], ValidateImages(Tail(images)))

\* try: Decimal(raw_delta) except (InvalidOperation, TypeError): a number is
\* taken as it is, a text that is no number raises InvalidOperation, null
\* raises TypeError, and a list that is no (sign, digits, exponent) triple
\* raises ValueError, which the except clause does not name.
ParseDecimal(raw) ==
    IF raw.kind = "num" THEN [err |-> "ok", value |-> raw.mills]
    ELSE IF raw.kind = "absent" THEN [err |-> "ok", value |-> 0]
    ELSE IF raw.kind \in {"text", "null"} THEN [err |-> "invalid", value |-> 0]
    ELSE [err |-> "crash", value |-> 0]

\* cleaned_sizes: a bare string is a name, a blank name is skipped, name and
\* description are checked against their columns, price_delta is parsed.
RECURSIVE ValidateSizes(_)
ValidateSizes(sizes) ==
    IF sizes = <<>> THEN Cleaned200(<<>>)
    ELSE LET size        == Head(sizes)
             value       == Strip(IF size.kind = "dict" THEN size.name ELSE size.value)
             description == IF size.kind = "dict" THEN Strip(size.description) ELSE <<>>
             delta       == ParseDecimal(IF size.kind = "dict" THEN size.price_delta
                                         ELSE [kind |-> "num", mills |-> 0])
         IN  IF value = <<>> THEN ValidateSizes(Tail(sizes))
             ELSE IF Len(value) > SizeNameMax THEN Invalid400("sizes")
             ELSE IF Len(description) > SizeDescMax THEN Invalid400("sizes")
             ELSE IF delta.err = "invalid" THEN Invalid400("sizes")
             ELSE IF delta.err = "crash" THEN Crash500
             ELSE Cons([name |-> value, description |-> description,
                        price_delta |-> delta.value],
                       ValidateSizes(Tail(sizes)))

\* The characters of the classes A-Z, a-z and 0-9.
UpperCase == <<"A", "B", "C", "D", "E", "F", "G", "H", "I", "J", "K", "L", "M",
               "N", "O", "P", "Q", "R", "S", "T", "U", "V", "W", "X", "Y", "Z">>

LowerCase == <<"a", "b", "c", "d", "e", "f", "g", "h", "i", "j", "k", "l", "m",
               "n", "o", "p", "q", "r", "s", "t", "u", "v", "w", "x", "y", "z">>

Digits == <<"0", "1", "2", "3", "4", "5", "6", "7", "8", "9">>

\* name_pattern = re.compile(r"^[A-Za-z0-9._-]+$"), matched against a text
\* without a line end.
NamePattern(name) ==
    /\ name # <<>>
    /\ \A i \in 1..Len(name) :
           name[i] \in Range(UpperCase) \cup Range(LowerCase) \cup Range(Digits)
                       \cup {".", "_", "-"}

\* str.replace(" ", "-")
ReplaceSpaces(s) == [i \in 1..Len(s) |-> IF s[i] = " " THEN "-" ELSE s[i]]

\* float(price_delta or 0), 0 when the conversion raises.
OptionPriceDelta(raw) == IF raw.kind = "num" THEN raw.mills ELSE 0

\* The `sizes` of an option: the non-blank entries stripped.
RECURSIVE OptionSizes(_)
OptionSizes(raw_sizes) ==
    IF raw_sizes = <<>> THEN <<>>
    ELSE (IF Strip(Head(raw_sizes)) = <<>> THEN <<>> ELSE <<Strip(Head(raw_sizes))>>)
         \o OptionSizes(Tail(raw_sizes))

\* normalized_options: a string becomes an option with its label (stripped,
\* not matched against the pattern, without `sizes`); a dict becomes an option
\* whose label is stripped, dashed and matched, with its `size` folded into
\* `sizes`; anything else is skipped.
RECURSIVE NormalizeOptions(_)
NormalizeOptions(options) ==
    IF options = <<>> THEN Cleaned200(<<>>)
    ELSE LET option == Head(options)
             rest   == NormalizeOptions(Tail(options))
         IN  IF option.kind = "str"
             THEN IF Strip(option.value) = <<>> THEN rest
                  ELSE Cons([label |-> Strip(option.value), description |-> <<>>,
                             icon_url |-> <<>>, price_delta |-> 0], rest)
             ELSE IF option.kind # "dict" THEN rest
             ELSE LET label    == ReplaceSpaces(Strip(option.label))
                      size_val == Strip(option.size)
                      listed   == OptionSizes(option.sizes)
                  IN  IF label = <<>> THEN rest
                      ELSE IF ~NamePattern(label) THEN Invalid400("styles")
                      ELSE Cons([label |-> label,
                                 description |-> Strip(option.description),
                                 icon_url |-> <<>>,
                                 price_delta |-> OptionPriceDelta(option.price_delta),
                                 sizes |-> IF size_val # <<>> /\ size_val \notin Range(listed)
                                           THEN Append(listed, size_val) ELSE listed],
                                rest)

\* cleaned_styles: the name is stripped and dashed, a blank name is skipped,
\* the name is checked against its column and the pattern, the options are
\* normalized, the size reference is passed through.
RECURSIVE ValidateStyles(_)
ValidateStyles(styles) ==
    IF styles = <<>> THEN Cleaned200(<<>>)
    ELSE LET style   == Head(styles)
             name    == ReplaceSpaces(Strip(style.name))
             options == NormalizeOptions(style.options)
         IN  IF name = <<>> THEN ValidateStyles(Tail(styles))
             ELSE IF Len(name) > StyleNameMax THEN Invalid400("styles")
             ELSE IF ~NamePattern(name) THEN Invalid400("styles")
             ELSE IF options.err # "ok" THEN options
             ELSE Cons([name |-> name, icon_url |-> <<>>, options |-> options.cleaned,
                        is_shared |-> style.is_shared, size |-> style.size],
                       ValidateStyles(Tail(styles)))

\* _validate_related_data: the collections are cleaned in the order images,
\* sizes, styles; the first error ends the request.
ValidateRelatedData(images, sizes, styles) ==
    LET cleaned_images == ValidateImages(images)
        cleaned_sizes  == ValidateSizes(sizes)
        cleaned_styles == ValidateStyles(styles)
    IN  IF cleaned_images.err # "ok" THEN cleaned_images
        ELSE IF cleaned_sizes.err # "ok" THEN cleaned_sizes
        ELSE IF cleaned_styles.err # "ok" THEN cleaned_styles
        ELSE Cleaned200([images |-> cleaned_images.cleaned,
                         sizes |-> cleaned_sizes.cleaned,
                         styles |-> cleaned_styles.cleaned])

(***************************************************************************)
(* Variant persistence: ProductViewSet._handle_related_data.               *)
(***************************************************************************)
\* str.lower()
Lower(s) ==
    [i \in 1..Len(s) |->
        IF \E k \in 1..26 : UpperCase[k] = s[i]
        THEN LowerCase[CHOOSE k \in 1..26 : UpperCase[k] = s[i]]
        ELSE s[i]]

\* str() of a natural number.
RECURSIVE Str(_)
Str(n) == IF n < 10 THEN <<Digits[n + 1]>> ELSE Str(n \div 10) \o <<Digits[(n % 10) + 1]>>

\* DecimalField(max_digits=10, decimal_places=2): the value is stored with two
\* decimal places; a value half-way between two is rounded to the even one
\* (decimal's quantize) or away from zero (the database's numeric column).
Quantize(mills, rounding) ==
    LET down == (mills \div 10) * 10
        rest == mills % 10
    IN  IF rest < 5 THEN down
        ELSE IF rest > 5 THEN down + 10
        ELSE IF rounding = "half_up" \/ (down \div 10) % 2 = 1 THEN down + 10
        ELSE down

RoundingModes == {"half_even", "half_up"}

\* ProductImage.objects.create for each cleaned image.
CreateImages(p, images, first_id) ==
    {[id |-> first_id + i - 1, product |-> p, url |-> images[i].url] : i \in 1..Len(images)}

\* ProductSize.objects.create for each cleaned size: size_objs.
CreateSizes(p, sizes, first_id, rounding) ==
    {[id |-> first_id + i - 1, product |-> p, name |-> sizes[i].name,
      description |-> sizes[i].description,
      price_delta |-> Quantize(sizes[i].price_delta, rounding)] : i \in 1..Len(sizes)}

\* Mutant: the lookup made from every size of the table.
SizesOfAnyProduct(all_sizes, size_objs) == all_sizes \cup size_objs

\* size_lookup is made from size_objs, the sizes created by this request.
SizesOfLookup(all_sizes, size_objs) == size_objs

\* size_lookup.get(key): the size whose id reads as the key, else the last
\* created size whose lower-cased name is the key, else None (0).
SizeLookup(size_objs, key) ==
    IF \E sz \in size_objs : Str(sz.id) = key
    THEN (CHOOSE sz \in size_objs : Str(sz.id) = key).id
    ELSE IF \E sz \in size_objs : Lower(Strip(sz.name)) = key
    THEN (CHOOSE sz \in size_objs :
              /\ Lower(Strip(sz.name)) = key
              /\ \A other \in size_objs :
                     Lower(Strip(other.name)) = key => other.id <= sz.id).id
    ELSE 0

\* The size of a style: its `size` looked up when it is truthy, else None.
StyleSize(size_objs, size_ref) ==
    IF size_ref.kind = "str" /\ size_ref.value # <<>>
    THEN SizeLookup(size_objs, Lower(Strip(size_ref.value)))
    ELSE IF size_ref.kind = "int" /\ size_ref.value # 0
    THEN SizeLookup(size_objs, Str(size_ref.value))
    ELSE 0

\* ProductStyle.objects.create for each cleaned style.
CreateStyles(p, styles, first_id, size_objs) ==
    {[id |-> first_id + i - 1, product |-> p,
      size |-> StyleSize(size_objs, styles[i].size),
      is_shared |-> styles[i].is_shared, name |-> styles[i].name,
      icon_url |-> styles[i].icon_url, options |-> styles[i].options] :
        i \in 1..Len(styles)}

\* on_delete of the rows that point to deleted sizes and products:
\* ProductStyle.size is SET_NULL.
WithoutSizes(styles, deleted_sizes) ==
    {IF st.size \in {sz.id : sz \in deleted_sizes} THEN [st EXCEPT !.size = 0] ELSE st :
        st \in styles}

\* _handle_related_data for product p and cleaned collections: the rows are
\* created in the order images, sizes, styles.
HandleRelatedData(p, cleaned, rounding) ==
    LET size_objs == CreateSizes(p, cleaned.sizes, nextId.size, rounding)
    IN  [images |-> CreateImages(p, cleaned.images, nextId.image),
         sizes  |-> size_objs,
         styles |-> CreateStyles(p, cleaned.styles, nextId.style,
                                 SizesOfLookup(productSize, size_objs)),
         next   |-> [nextId EXCEPT !.image = @ + Len(cleaned.images),
                                   !.size = @ + Len(cleaned.sizes),
                                   !.style = @ + Len(cleaned.styles)]]

\* The id counters stay within the bounds of the model.
IdsWithinBounds(next) ==
    /\ next.image <= MaxImageId + 1
    /\ next.size <= MaxSizeId + 1
    /\ next.style <= MaxStyleId + 1

\* The answer to a request that _validate_related_data ended.
ValidationResponse(validated) ==
    IF validated.err = "invalid" THEN [status |-> 400, field |-> validated.field]
    ELSE [status |-> 500, field |-> ""]

\* ProductViewSet.create with images, sizes and styles (no filter_values, no
\* dimension template): the payload is validated, the product row is saved,
\* the variant rows are created.
CreateProductVariants(images, sizes, styles, rounding) ==
    /\ nextId.product \in ProductIds
    /\ lastReq' = [op |-> "create_product", p |-> nextId.product, images |-> images,
                   sizes |-> sizes, styles |-> styles]
    /\ \E validated \in {ValidateRelatedData(images, sizes, styles)} :
           IF validated.err # "ok"
           THEN /\ resp' = ValidationResponse(validated)
                /\ UNCHANGED <<product, variantVars, nextId>>
           ELSE \E made \in {HandleRelatedData(nextId.product, validated.cleaned, rounding)} :
                    /\ IdsWithinBounds(made.next)
                    /\ product' = (nextId.product :> NewProduct("beds", TRUE)) @@ product
                    /\ productImage' = productImage \cup made.images
                    /\ productSize' = productSize \cup made.sizes
                    /\ productStyle' = productStyle \cup made.styles
                    /\ productMattress' = productMattress
                    /\ nextId' = [made.next EXCEPT !.product = @ + 1]
                    /\ resp' = [status |-> 201, field |-> ""]
    /\ UNCHANGED <<atomicRequests, inflight, review, pfv, nextPfvId, categoryFilter, dimensionRow,
                   templateLink, orderVars>>

\* ProductViewSet.update with images, sizes and styles: the payload is
\* validated (absent collections as empty ones), the product is looked up,
\* the cleaned lists are never None, so every variant row of the product is
\* deleted, and the variant rows are created from the cleaned lists; the
\* payload names no dimension_template, so the link of the product is deleted.
UpdateProductVariants(p, images, sizes, styles, rounding) ==
    /\ lastReq' = [op |-> "update_product", p |-> p, images |-> images,
                   sizes |-> sizes, styles |-> styles]
    /\ \E validated \in {ValidateRelatedData(images, sizes, styles)} :
           IF validated.err # "ok"
           THEN /\ resp' = ValidationResponse(validated)
                /\ UNCHANGED <<variantVars, templateLink, nextId>>
           ELSE IF p \notin DOMAIN product
           THEN /\ resp' = [status |-> 404, field |-> ""]
                /\ UNCHANGED <<variantVars, templateLink, nextId>>
           ELSE \E made \in {HandleRelatedData(p, validated.cleaned, rounding)} :
                \E old_sizes \in {{sz \in productSize : sz.product = p}} :
                    /\ IdsWithinBounds(made.next)
                    /\ productImage' =
                           {img \in productImage : img.product # p} \cup made.images
                    /\ productSize' = (productSize \ old_sizes) \cup made.sizes
                    /\ productStyle' =
                           {st \in WithoutSizes(productStyle, old_sizes) : st.product # p}
                           \cup made.styles
                    /\ productMattress' = {m \in productMattress : m.product # p}
                    /\ templateLink' = WithoutLink(templateLink, p)
                    /\ nextId' = made.next
                    /\ resp' = [status |-> 200, field |-> ""]
    /\ UNCHANGED <<atomicRequests, inflight, review, product, pfv, nextPfvId, categoryFilter,
                   dimensionRow, orderVars>>

\* The table `product` without the row p.
WithoutProduct(p) == [q \in DOMAIN product \ {p} |-> product[q]]

\* ProductViewSet.destroy: the product row is deleted with the rows that
\* cascade from it (variants, filter links, reviews, the template link);
\* OrderItem.product, ProductStyle.size and ProductMattress.source_product
\* are SET_NULL.
DeleteProduct(p) ==
    /\ lastReq' = [op |-> "delete_product", p |-> p]
    /\ IF p \notin DOMAIN product
       THEN /\ resp' = [status |-> 404, field |-> ""]
            /\ UNCHANGED <<product, pfv, variantVars, orderItem, review, templateLink>>
       ELSE /\ product' = WithoutProduct(p)
            /\ pfv' = {row \in pfv : row.product # p}
            /\ productImage' = {img \in productImage : img.product # p}
            /\ productSize' = {sz \in productSize : sz.product # p}
            /\ productStyle' =
                   {st \in WithoutSizes(productStyle,
                                        {sz \in productSize : sz.product = p}) :
                       st.product # p}
            /\ productMattress' =
                   {IF m.source_product = p THEN [m EXCEPT !.source_product = 0] ELSE m :
                       m \in {row \in productMattress : row.product # p}}
            /\ orderItem' = {IF it.product = p THEN [it EXCEPT !.product = 0] ELSE it :
                                it \in orderItem}
            /\ review' = [r \in {q \in DOMAIN review : review[q].product # p} |-> review[r]]
            /\ templateLink' = WithoutLink(templateLink, p)
            /\ resp' = [status |-> 204, field |-> ""]
    /\ UNCHANGED <<atomicRequests, inflight, nextPfvId, categoryFilter, dimensionRow,
                   orders, nextId>>

\* The orders in which a query without ORDER BY may return the rows S.
AnyOrderOf(S) ==
    {rows \in [1..Cardinality(S) -> S] :
        \A i \in 1..Cardinality(S) : \A j \in 1..Cardinality(S) :
            rows[i] = rows[j] => i = j}

\* GET /products/{id}/: the sizes and styles of ProductSerializer; ProductSize
\* and ProductStyle have no Meta.ordering and the prefetch names none.
RetrieveProductVariants(p) ==
    /\ lastReq.op = "create_product"
    /\ resp.status = 201
    /\ lastReq.p = p
    /\ lastReq' = [lastReq EXCEPT !.op = "retrieve_product"]
    /\ \E sizes \in AnyOrderOf({sz \in productSize : sz.product = p}) :
       \E styles \in AnyOrderOf({st \in productStyle : st.product = p}) :
           resp' = [status |-> 200, field |-> "",
                    sizes |-> [i \in 1..Len(sizes) |->
                                  [id |-> sizes[i].id, name |-> sizes[i].name,
                                   description |-> sizes[i].description,
                                   price_delta |-> sizes[i].price_delta]],
                    styles |-> [i \in 1..Len(styles) |->
                                  [id |-> styles[i].id, name |-> styles[i].name,
                                   options |-> styles[i].options,
                                   size_id |-> styles[i].size]]]
    /\ UNCHANGED <<atomicRequests, inflight, review, product, pfv, nextPfvId, categoryFilter,
                   dimensionRow, templateLink, variantVars, orderVars, nextId>>

(***************************************************************************)
(* The payloads of the variant requests.                                   *)
(***************************************************************************)
\* A text of n characters.
TextOfLength(n) == [i \in 1..n |-> "x"]

Num(mills) == [kind |-> "num", mills |-> mills]

SizeDict(name, price_delta) ==
    [kind |-> "dict", name |-> name, description |-> <<>>, price_delta |-> price_delta]

NoSizeRef == [kind |-> "none", value |-> 0]

StyleDict(name, size, options) ==
    [kind |-> "dict", name |-> name, size |-> size, options |-> options,
     is_shared |-> FALSE]

OptionDict(label, size, sizes) ==
    [kind |-> "dict", label |-> label, description |-> <<>>, size |-> size,
     sizes |-> sizes, price_delta |-> Num(1500)]

\* Entries of `images`: a url, a url longer than the column, a bare string.
ImageEntries ==
    { [kind |-> "dict", url |-> <<"u">>],
      [kind |-> "dict", url |-> TextOfLength(ImageUrlMax + 1)],
      [kind |-> "str", url |-> <<"u">>] }

\* Entries of `sizes`: a bare name; names with price_delta 12.34, 12.345 (with
\* a blank before the name) and 0.005; a price_delta that is a text, null and
\* a list of two numbers; a name longer than the column; a blank name.
SizeEntries ==
    { [kind |-> "str", value |-> <<"K">>],
      SizeDict(<<"K">>, Num(12340)),
      SizeDict(<<" ", "Q">>, Num(12345)),
      SizeDict(<<"Q">>, Num(5)),
      SizeDict(<<"K">>, [kind |-> "text"]),
      SizeDict(<<"K">>, [kind |-> "null"]),
      SizeDict(<<"K">>, [kind |-> "list"]),
      SizeDict(TextOfLength(SizeNameMax + 1), Num(0)),
      SizeDict(<<" ">>, Num(0)) }

\* Entries of `styles`: names with a space, a dot and an "@"; options given as
\* a bare string, as an object with a single size, with a size that is listed
\* already, and with a label that has an "@"; a name longer than the column.
StyleEntries ==
    { StyleDict(<<" ", "a", " ", "b">>, NoSizeRef, <<>>),
      StyleDict(<<"a", ".", "b">>, NoSizeRef, <<>>),
      StyleDict(<<"a", "@">>, NoSizeRef, <<>>),
      StyleDict(<<"a">>, [kind |-> "str", value |-> <<"k">>],
                <<[kind |-> "str", value |-> <<"O", " ", "k">>]>>),
      StyleDict(<<"a">>, [kind |-> "int", value |-> 1],
                <<OptionDict(<<"O", " ", "k">>, <<"K">>, <<>>)>>),
      StyleDict(<<"a">>, NoSizeRef,
                <<OptionDict(<<"O">>, <<"K">>, <<<<" ", "K">>, <<"Q">>>>)>>),
      StyleDict(<<"a">>, NoSizeRef, <<OptionDict(<<"a", "@">>, <<>>, <<>>)>>),
      StyleDict(TextOfLength(StyleNameMax + 1), NoSizeRef, <<>>) }

(***************************************************************************)
(* SpecNormalize: one product created with images, sizes and styles next   *)
(* to a product without variants, and read again.                          *)
(***************************************************************************)
InitNormalize ==
    /\ atomicRequests \in {FALSE}
    /\ product = <<NewProduct("beds", TRUE)>>
    /\ pfv = {}
    /\ nextPfvId = 1
    /\ categoryFilter = <<>>
    /\ dimensionRow = <<>>
    /\ templateLink = <<>>
    /\ productImage = {}
    /\ productSize = {}
    /\ productStyle = {}
    /\ productMattress = {}
    /\ orders = <<>>
    /\ orderItem = {}
    /\ review = <<>>
    /\ inflight = <<>>
    /\ nextId = FirstIds(1)
    /\ lastReq = NoReq
    /\ resp = NoResp

NextNormalize ==
    \/ /\ lastReq = NoReq
       /\ \E images \in SeqsUpTo(ImageEntries, MaxImages),
             sizes \in SeqsUpTo(SizeEntries, MaxSizes),
             styles \in SeqsUpTo(StyleEntries, MaxStyles),
             rounding \in RoundingModes :
              CreateProductVariants(images, sizes, styles, rounding)
    \/ \E p \in ProductIds : RetrieveProductVariants(p)

SpecNormalize == InitNormalize /\ [][NextNormalize]_vars

(***************************************************************************)
(* SpecVariants: products created, updated and deleted with a few variant  *)
(* payloads, valid and invalid.                                            *)
(***************************************************************************)
\* The payloads: none; a size and a style that names it "k"; two sizes and a
\* style that names the size with id 1; a size and a style that names the
\* size with id 3; a price_delta that is a text; a price_delta that is a list
\* of two numbers; an image url longer than the column; a style name with an
\* "@"; an image that is a bare string.
VariantPayloads ==
    LET K  == SizeDict(<<"K">>, Num(12340))
        Q  == SizeDict(<<"Q">>, Num(0))
        Im == [kind |-> "dict", url |-> <<"u">>]
    IN  { [images |-> <<>>, sizes |-> <<>>, styles |-> <<>>],
          [images |-> <<Im>>, sizes |-> <<K>>,
           styles |-> <<StyleDict(<<"a">>, [kind |-> "str", value |-> <<"k">>], <<>>)>>],
          [images |-> <<>>, sizes |-> <<K, Q>>,
           styles |-> <<StyleDict(<<"a">>, [kind |-> "int", value |-> 1], <<>>)>>],
          [images |-> <<>>, sizes |-> <<K>>,
           styles |-> <<StyleDict(<<"a">>, [kind |-> "int", value |-> 3], <<>>)>>],
          [images |-> <<>>, sizes |-> <<K, SizeDict(<<"Q">>, [kind |-> "text"])>>,
           styles |-> <<>>],
          [images |-> <<>>, sizes |-> <<SizeDict(<<"K">>, [kind |-> "list"])>>,
           styles |-> <<>>],
          [images |-> <<[kind |-> "dict", url |-> TextOfLength(ImageUrlMax + 1)]>>,
           sizes |-> <<K>>, styles |-> <<>>],
          [images |-> <<Im>>, sizes |-> <<>>,
           styles |-> <<StyleDict(<<"a", "@">>, NoSizeRef, <<>>)>>],
          [images |-> <<[kind |-> "str", url |-> <<"u">>]>>, sizes |-> <<K>>,
           styles |-> <<>>] }

InitVariants ==
    /\ atomicRequests \in {FALSE}
    /\ product = <<>>
    /\ pfv = {}
    /\ nextPfvId = 1
    /\ categoryFilter = <<>>
    /\ dimensionRow = <<>>
    /\ templateLink = <<>>
    /\ productImage = {}
    /\ productSize = {}
    /\ productStyle = {}
    /\ productMattress = {}
    /\ orders = <<>>
    /\ orderItem = {}
    /\ review = <<>>
    /\ inflight = <<>>
    /\ nextId = FirstIds(0)
    /\ lastReq = NoReq
    /\ resp = NoResp

NextVariants ==
    \/ \E payload \in VariantPayloads :
           CreateProductVariants(payload.images, payload.sizes, payload.styles,
                                 "half_even")
    \/ \E p \in ProductIds, payload \in VariantPayloads :
           UpdateProductVariants(p, payload.images, payload.sizes, payload.styles,
                                 "half_even")
    \/ \E p \in ProductIds : DeleteProduct(p)

SpecVariants == InitVariants /\ [][NextVariants]_vars

(***************************************************************************)
(* Order Capture: OrderViewSet.                                            *)
(***************************************************************************)
\* The users: 0 is the anonymous requester, 1 a customer, 2 a staff member.
Users == {1, 2}

Staff == {2}

Requesters == {0} \cup Users

\* ATOMIC_REQUESTS of the database settings, which are not in src/: the spec
\* has every request run in a transaction of its own that the framework
\* manages.
AutocommitRequests == FALSE

AtomicRequests == TRUE

\* bool(item.get("include_dimension", True)): true when the key is absent,
\* else the truth value of what was sent (a non-empty text is true).
IncludeDimension(raw) ==
    IF raw.kind = "absent" THEN TRUE
    ELSE IF raw.kind = "bool" THEN raw.value
    ELSE raw.value # <<>>

\* item.get(key, ""): the text sent, "" when the key is absent.
TextOrEmpty(raw) == IF raw.kind = "absent" THEN <<>> ELSE raw.value

\* OrderItem.objects.create can be executed: product_id is null or the id of a
\* product (foreign key), quantity and price are not null.
ItemInsertable(item) ==
    /\ item.product_id = 0 \/ item.product_id \in DOMAIN product
    /\ item.quantity.kind = "int"
    /\ item.price.kind = "num"

\* The row OrderItem.objects.create writes for an item.
ItemRow(id, order_id, item, rounding) ==
    [id |-> id, order |-> order_id, product |-> item.product_id,
     quantity |-> item.quantity.value,
     price |-> Quantize(item.price.mills, rounding),
     size |-> TextOrEmpty(item.size),
     extras_total |-> Quantize(item.extras_total, rounding),
     include_dimension |-> IncludeDimension(item.include_dimension)]

\* The loop over the items: the rows are created one after the other until
\* one cannot be; [rows, ok].
RECURSIVE CreateItems(_, _, _, _)
CreateItems(first_id, order_id, items, rounding) ==
    IF items = <<>> THEN [rows |-> {}, ok |-> TRUE]
    ELSE IF ~ItemInsertable(Head(items)) THEN [rows |-> {}, ok |-> FALSE]
    ELSE LET rest == CreateItems(first_id + 1, order_id, Tail(items), rounding)
         IN  [rows |-> {ItemRow(first_id, order_id, Head(items), rounding)} \cup rest.rows,
              ok |-> rest.ok]

\* serializer.save(user=...): the row of the order; the user of the payload
\* is replaced by the requester, the status is "pending" unless sent.
OrderRow(requester, data) ==
    [user |-> requester, first_name |-> data.first_name,
     total_amount |-> data.total_amount,
     status |-> IF "status" \in DOMAIN data THEN data.status ELSE "pending"]

\* OrderViewSet.create (open to anyone): the order is saved, then one
\* OrderItem per item; an item that cannot be inserted ends the request with
\* an exception, which rolls the request back when requests are atomic.
CreateOrder(requester, data, items, rounding) ==
    /\ nextId.order <= MaxOrderId
    /\ lastReq' = [op |-> "create_order", user |-> requester, id |-> nextId.order,
                   data |-> data, items |-> items]
    /\ IF "user" \in DOMAIN data /\ data.user \notin Users
       THEN /\ resp' = [status |-> 400, field |-> "user"]
            /\ UNCHANGED <<orderVars, nextId>>
       ELSE \E made \in {CreateItems(nextId.item, nextId.order, items, rounding)} :
            \E rollback \in {~made.ok /\ atomicRequests} :
                /\ nextId.item + Cardinality(made.rows) <= MaxItemId + 1
                /\ orders' = IF rollback THEN orders
                             ELSE (nextId.order :> OrderRow(requester, data)) @@ orders
                /\ orderItem' = IF rollback THEN orderItem ELSE orderItem \cup made.rows
                /\ nextId' = IF rollback THEN nextId
                             ELSE [nextId EXCEPT !.order = @ + 1,
                                                 !.item = @ + Cardinality(made.rows)]
                /\ resp' = [status |-> IF made.ok THEN 201 ELSE 500, field |-> ""]
    /\ UNCHANGED <<atomicRequests, inflight, review, product, pfv, nextPfvId, categoryFilter,
                   dimensionRow, templateLink, variantVars>>

\* get_permissions and get_queryset for the requests on one order: the
\* anonymous requester is refused, staff sees every order, a customer only
\* the orders whose user they are.
OrderAccess(requester, id) ==
    IF requester = 0 THEN 401
    ELSE IF id \in DOMAIN orders /\ (requester \in Staff \/ orders[id].user = requester)
    THEN 200
    ELSE 404

\* Mutant: save() that also writes a total of zero.
SavedWithoutTotal(row, status) == [row EXCEPT !.status = status, !.total_amount = 0]

\* order.status = ...; order.save(): the row read by get_object with the new
\* status.
SavedWithStatus(row, status) == [row EXCEPT !.status = status]

\* The body of the four mark_* actions.
MarkStatus(op, requester, id, status) ==
    /\ lastReq' = [op |-> op, user |-> requester, id |-> id]
    /\ \E access \in {OrderAccess(requester, id)} :
           /\ resp' = [status |-> access, field |-> ""]
           /\ orders' = IF access = 200
                        THEN [orders EXCEPT ![id] = SavedWithStatus(orders[id], status)]
                        ELSE orders
    /\ UNCHANGED <<atomicRequests, inflight, review, product, pfv, nextPfvId, categoryFilter,
                   dimensionRow, templateLink, variantVars, orderItem, nextId>>

MarkPaid(requester, id) == MarkStatus("mark_paid", requester, id, "paid")

MarkShipped(requester, id) == MarkStatus("mark_shipped", requester, id, "shipped")

MarkDelivered(requester, id) == MarkStatus("mark_delivered", requester, id, "delivered")

MarkCancelled(requester, id) == MarkStatus("mark_cancelled", requester, id, "cancelled")

\* The fields OrderSerializer (fields = "__all__") writes.
OrderFields == {"user", "first_name", "total_amount", "status"}

RequiredOrderFields == {"first_name", "total_amount"}

STATUS_CHOICES == {"pending", "paid", "shipped", "delivered", "cancelled"}

\* ModelViewSet.update and partial_update with OrderSerializer: the fields of
\* the payload are validated (PUT needs the required ones) and written.
UpdateOrder(requester, id, data, partial) ==
    /\ lastReq' = [op |-> IF partial THEN "partial_update_order" ELSE "update_order",
                   user |-> requester, id |-> id]
    /\ \E access \in {OrderAccess(requester, id)} :
           IF access # 200
           THEN /\ resp' = [status |-> access, field |-> ""]
                /\ UNCHANGED orders
           ELSE IF \/ ~partial /\ ~(RequiredOrderFields \subseteq DOMAIN data)
                   \/ "status" \in DOMAIN data /\ data.status \notin STATUS_CHOICES
                   \/ "user" \in DOMAIN data /\ data.user \notin Users \cup {0}
           THEN /\ resp' = [status |-> 400, field |-> ""]
                /\ UNCHANGED orders
           ELSE /\ resp' = [status |-> 200, field |-> ""]
                /\ orders' = [orders EXCEPT ![id] =
                                 [f \in OrderFields |->
                                     IF f \in DOMAIN data THEN data[f] ELSE orders[id][f]]]
    /\ UNCHANGED <<atomicRequests, inflight, review, product, pfv, nextPfvId, categoryFilter,
                   dimensionRow, templateLink, variantVars, orderItem, nextId>>

\* ModelViewSet.destroy: the order is deleted with its items (CASCADE).
DeleteOrder(requester, id) ==
    /\ lastReq' = [op |-> "delete_order", user |-> requester, id |-> id]
    /\ \E access \in {OrderAccess(requester, id)} :
           /\ resp' = [status |-> IF access = 200 THEN 204 ELSE access, field |-> ""]
           /\ orders' = IF access = 200
                        THEN [o \in DOMAIN orders \ {id} |-> orders[o]]
                        ELSE orders
           /\ orderItem' = IF access = 200
                           THEN {it \in orderItem : it.order # id}
                           ELSE orderItem
    /\ UNCHANGED <<atomicRequests, inflight, review, product, pfv, nextPfvId, categoryFilter,
                   dimensionRow, templateLink, variantVars, nextId>>

\* Mutant: the queryset of the orders without the filter on the user.
EveryOrder(requester) == DOMAIN orders

\* OrderViewSet.get_queryset: every order for staff, else the orders whose
\* user is the requester.
GetQuerysetOrders(requester) ==
    IF requester \in Staff THEN DOMAIN orders
    ELSE {o \in DOMAIN orders : orders[o].user = requester}

\* The ids S from the newest to the oldest (order_by("-created_at")).
RECURSIVE NewestFirst(_)
NewestFirst(S) ==
    IF S = {} THEN <<>>
    ELSE LET newest == CHOOSE o \in S : \A other \in S : other <= o
         IN  <<newest>> \o NewestFirst(S \ {newest})

\* GET /orders/: refused to the anonymous requester (IsAuthenticated), else
\* the orders of get_queryset.
ListOrders(requester) ==
    /\ lastReq' = [op |-> "list_orders", user |-> requester, id |-> 0]
    /\ resp' = IF requester = 0
               THEN [status |-> 401, field |-> "", ids |-> <<>>]
               ELSE [status |-> 200, field |-> "",
                     ids |-> NewestFirst(GetQuerysetOrders(requester))]
    /\ UNCHANGED <<atomicRequests, inflight, review, product, pfv, nextPfvId, categoryFilter,
                   dimensionRow, templateLink, variantVars, orderVars, nextId>>

\* GET /orders/{id}/: get_object looks the id up in get_queryset.
RetrieveOrder(requester, id) ==
    /\ lastReq' = [op |-> "retrieve_order", user |-> requester, id |-> id]
    /\ resp' = IF requester = 0
               THEN [status |-> 401, field |-> "", ids |-> <<>>]
               ELSE IF id \in GetQuerysetOrders(requester)
               THEN [status |-> 200, field |-> "", ids |-> <<id>>]
               ELSE [status |-> 404, field |-> "", ids |-> <<>>]
    /\ UNCHANGED <<atomicRequests, inflight, review, product, pfv, nextPfvId, categoryFilter,
                   dimensionRow, templateLink, variantVars, orderVars, nextId>>

(***************************************************************************)
(* The payloads of the order requests.                                     *)
(***************************************************************************)
Absent == [kind |-> "absent", value |-> <<>>]

Item(product_id, quantity, price, size, extras_total, include_dimension) ==
    [product_id |-> product_id, quantity |-> quantity, price |-> price, size |-> size,
     extras_total |-> extras_total, include_dimension |-> include_dimension]

Quantity(n) == [kind |-> "int", value |-> n]

\* Items: product 1 in size K; product 2 at 9.995 with extras of 1.005 and
\* include_dimension false; a product that does not exist; a quantity of
\* null; no product, with include_dimension sent as the text "false".
ItemEntries ==
    { Item(1, Quantity(1), Num(10000), [kind |-> "text", value |-> <<"K">>], 0, Absent),
      Item(2, Quantity(2), Num(9995), Absent, 1005, [kind |-> "bool", value |-> FALSE]),
      Item(3, Quantity(1), Num(10000), Absent, 0, Absent),
      Item(1, [kind |-> "null", value |-> 0], Num(10000), Absent, 0, Absent),
      Item(0, Quantity(1), Num(5000), [kind |-> "text", value |-> <<"Q">>], 0,
           [kind |-> "text", value |-> <<"f", "a", "l", "s", "e">>]) }

\* The order fields of a payload: the contact and the total, alone, with the
\* id of another user, and with a status.
OrderPayloads ==
    { [first_name |-> <<"A">>, total_amount |-> 10000],
      [first_name |-> <<"A">>, total_amount |-> 10000, user |-> 2],
      [first_name |-> <<"A">>, total_amount |-> 10000, user |-> 2, status |-> "paid"] }

\* The fields a PUT or PATCH sends.
OrderUpdates ==
    { [first_name |-> <<"A">>, total_amount |-> 10],
      [total_amount |-> 10],
      [status |-> "pending"],
      [status |-> "refunded"] }

(***************************************************************************)
(* SpecOrderCreate: one order created from the items of a cart.            *)
(***************************************************************************)
InitOrders ==
    /\ atomicRequests = AtomicRequests
    /\ product = <<NewProduct("beds", TRUE), NewProduct("beds", TRUE)>>
    /\ pfv = {}
    /\ nextPfvId = 1
    /\ categoryFilter = <<>>
    /\ dimensionRow = <<>>
    /\ templateLink = <<>>
    /\ productImage = {}
    /\ productSize = {}
    /\ productStyle = {}
    /\ productMattress = {}
    /\ orders = <<>>
    /\ orderItem = {}
    /\ review = <<>>
    /\ inflight = <<>>
    /\ nextId = FirstIds(2)
    /\ lastReq = NoReq
    /\ resp = NoResp

NextOrderCreate ==
    /\ lastReq = NoReq
    /\ \E requester \in Requesters, data \in OrderPayloads,
          items \in SeqsUpTo(ItemEntries, MaxItems), rounding \in RoundingModes :
           CreateOrder(requester, data, items, rounding)

SpecOrderCreate == InitOrders /\ [][NextOrderCreate]_vars

(***************************************************************************)
(* SpecOrders: orders created, marked, updated and deleted, products       *)
(* updated and deleted.                                                    *)
(***************************************************************************)
\* The requests of the lifecycle: a cart of product 1 or an empty one, sent
\* by the anonymous requester or by the customer.
NextOrders ==
    \/ \E requester \in Requesters \ Staff,
          items \in {<<>>, <<Item(1, Quantity(1), Num(10000), Absent, 0, Absent)>>} :
           CreateOrder(requester, [first_name |-> <<"A">>, total_amount |-> 10000],
                       items, "half_even")
    \/ \E requester \in Requesters, id \in 1..MaxOrderId :
           \/ MarkPaid(requester, id)
           \/ MarkShipped(requester, id)
           \/ MarkDelivered(requester, id)
           \/ MarkCancelled(requester, id)
           \/ DeleteOrder(requester, id)
           \/ \E data \in OrderUpdates, partial \in BOOLEAN :
                  UpdateOrder(requester, id, data, partial)
    \/ DeleteProduct(1)
    \/ UpdateProductVariants(1, <<>>, <<>>, <<>>, "half_even")

SpecOrders == InitOrders /\ [][NextOrders]_vars

(***************************************************************************)
(* SpecOrderAccess: orders created and read by the anonymous requester,    *)
(* the customer and staff.                                                 *)
(***************************************************************************)
NextOrderAccess ==
    \/ \E requester \in Requesters,
          data \in {[first_name |-> <<"A">>, total_amount |-> 10000],
                    [first_name |-> <<"A">>, total_amount |-> 10000, user |-> 2]} :
           CreateOrder(requester, data, <<>>, "half_even")
    \/ \E requester \in Requesters : ListOrders(requester)
    \/ \E requester \in Requesters, id \in 1..MaxOrderId : RetrieveOrder(requester, id)

SpecOrderAccess == InitOrders /\ [][NextOrderAccess]_vars

(***************************************************************************)
(* Product writes as a whole: ProductViewSet.create and update with the    *)
(* name and slug, the collections images, sizes, styles and mattresses,    *)
(* and the dimension template (videos, colors and fabrics are written like *)
(* images).  The payload is a record that has only the keys that were      *)
(* sent.                                                                   *)
(***************************************************************************)
\* max_length of Product.name, Product.slug and ProductMattress.name, and of
\* the slug field of ProductWriteSerializer.
NameMax == 255
SlugMax == 255
MattressNameMax == 255
SlugFieldMax == 50

\* The DimensionTemplate rows (admin-authored).
DimensionTemplateIds == {1, 2}

\* A Product row with its name and slug.
ProductRow(name, slug) == NewProduct("beds", TRUE) @@ [name |-> name, slug |-> slug]

\* The characters \w of a regular expression.
WordChars == Range(UpperCase) \cup Range(LowerCase) \cup Range(Digits) \cup {"_"}

\* re.sub(r"[^\w\s-]", "", value)
KeepSlugChars(s) == SelectSeq(s, LAMBDA c : c \in WordChars \cup {" ", "-"})

\* re.sub(r"[-\s]+", "-", value): of every run of blanks and dashes the first
\* character stays, as a dash.
CollapseDashes(s) ==
    LET marked == [i \in 1..Len(s) |->
                      [c    |-> IF s[i] \in {" ", "-"} THEN "-" ELSE s[i],
                       keep |-> ~(s[i] \in {" ", "-"} /\ i > 1 /\ s[i - 1] \in {" ", "-"})]]
        kept   == SelectSeq(marked, LAMBDA m : m.keep)
    IN  [i \in 1..Len(kept) |-> kept[i].c]

\* str.strip("-_")
StripDashes(s) ==
    LET inner == {i \in 1..Len(s) : s[i] \notin {"-", "_"}}
    IN  IF inner = {} THEN <<>>
        ELSE SubSeq(s, CHOOSE i \in inner : \A j \in inner : i <= j,
                       CHOOSE i \in inner : \A j \in inner : i >= j)

\* django.utils.text.slugify of an ASCII text: lower-cased, the characters
\* other than letters, digits, underscores, blanks and dashes removed, every
\* run of blanks and dashes made one dash, dashes and underscores at the ends
\* removed.
Slugify(value) == StripDashes(CollapseDashes(KeepSlugChars(Lower(value))))

\* s[:n]
Take(s, n) == IF n >= Len(s) THEN s ELSE IF n <= 0 THEN <<>> ELSE SubSeq(s, 1, n)

\* The while loop of _generate_unique_slug: the suffix -counter replaces the
\* end of base_slug until no other product has the slug.
RECURSIVE FreeSlug(_, _, _, _)
FreeSlug(base_slug, slug, counter, taken) ==
    IF slug \notin taken THEN slug
    ELSE LET suffix == <<"-">> \o Str(counter)
         IN  FreeSlug(base_slug, Take(base_slug, SlugMax - Len(suffix)) \o suffix,
                      counter + 1, taken)

\* ProductWriteSerializer._generate_unique_slug for the instance p (0: none).
GenerateUniqueSlug(raw_value, p) ==
    LET slugified == Slugify(raw_value)
        base_slug == Take(IF slugified = <<>> THEN <<"p", "r", "o", "d", "u", "c", "t">>
                          ELSE slugified, SlugMax)
        taken     == {product[q].slug : q \in DOMAIN product \ {p}}
    IN  FreeSlug(base_slug, base_slug, 1, taken)

\* attrs.get(key) of a text field: the text of the payload without the blanks
\* around it (CharField trims them), "" when the key is absent.
TextOf(data, key) == IF key \in DOMAIN data THEN Strip(data[key]) ELSE <<>>

\* The slug ProductWriteSerializer.validate puts into attrs: made from the
\* slug or else the name of the payload, or else from the slug of the
\* instance.
ValidatedSlug(data, p) ==
    LET raw_slug_or_name == IF TextOf(data, "slug") # <<>> THEN TextOf(data, "slug")
                            ELSE TextOf(data, "name")
    IN  IF raw_slug_or_name # <<>> THEN GenerateUniqueSlug(raw_slug_or_name, p)
        ELSE GenerateUniqueSlug(product[p].slug, p)

\* dt_id = attrs.pop("dimension_template", None) and what validate makes of
\* it: the template when dt_id is truthy (a ValidationError when there is no
\* such template), None (0) when it is None; for 0 the key
\* _dimension_template_obj is not set, which the view reads as None.
ValidatedTemplate(data) ==
    IF "dimension_template" \notin DOMAIN data \/ data.dimension_template.kind = "null"
    THEN [err |-> "ok", field |-> "", obj |-> 0]
    ELSE IF data.dimension_template.value = 0
    THEN [err |-> "ok", field |-> "", obj |-> 0]
    ELSE IF data.dimension_template.value \in DimensionTemplateIds
    THEN [err |-> "ok", field |-> "", obj |-> data.dimension_template.value]
    ELSE [err |-> "invalid", field |-> "dimension_template", obj |-> 0]

\* serializer.is_valid for the instance p (0 on create), the other fields of
\* the product being valid: the name is required on create, must not be
\* blank and fits the column, the slug has at most 50 characters; then
\* validate runs.
ValidatedAttrs(data, p) ==
    IF \/ p = 0 /\ "name" \notin DOMAIN data
       \/ "name" \in DOMAIN data /\ TextOf(data, "name") = <<>>
       \/ Len(TextOf(data, "name")) > NameMax
    THEN [err |-> "invalid", field |-> "name", obj |-> 0, slug |-> <<>>, name |-> <<>>]
    ELSE IF Len(TextOf(data, "slug")) > SlugFieldMax
    THEN [err |-> "invalid", field |-> "slug", obj |-> 0, slug |-> <<>>, name |-> <<>>]
    ELSE ValidatedTemplate(data) @@
         [slug |-> ValidatedSlug(data, p),
          name |-> IF "name" \in DOMAIN data THEN TextOf(data, "name")
                   ELSE product[p].name]

\* _handle_dimension_template: the link is deleted for None; else
\* get_or_create(product=product) finds the link of the product and the
\* template is set on it, or it inserts a link without a template, which the
\* NOT NULL template column refuses (IntegrityError).
HandleDimensionTemplate(links, p, obj) ==
    IF obj = 0 THEN [links |-> WithoutLink(links, p), ok |-> TRUE]
    ELSE IF p \in DOMAIN links THEN [links |-> [links EXCEPT ![p] = obj], ok |-> TRUE]
    ELSE [links |-> links, ok |-> FALSE]

\* data.pop(key, []) on create, data.pop(key, None) or [] on update.
Collection(data, key) == IF key \in DOMAIN data THEN data[key] ELSE <<>>

\* `if images is not None` of update, tested on the cleaned list that
\* _validate_related_data returned for `images or []`: a list, also when the
\* key was absent.
CleanedIsNotNone(data, key) == TRUE

\* source_product of a mattress is truthy.
SourceGiven(raw) ==
    \/ raw.kind = "int" /\ raw.value # 0
    \/ raw.kind = "str" /\ raw.value # <<>>

\* cleaned_mattresses: an entry without name and source_product is skipped, a
\* name longer than the column is an error.
RECURSIVE ValidateMattresses(_)
ValidateMattresses(mattresses) ==
    IF mattresses = <<>> THEN Cleaned200(<<>>)
    ELSE LET mat  == Head(mattresses)
             name == Strip(mat.name)
         IN  IF Len(name) > MattressNameMax THEN Invalid400("mattresses")
             ELSE IF name = <<>> /\ ~SourceGiven(mat.source_product)
             THEN ValidateMattresses(Tail(mattresses))
             ELSE Cons([name |-> name, source_product |-> mat.source_product],
                       ValidateMattresses(Tail(mattresses)))

\* _validate_related_data on the collections of the payload, the mattresses
\* last.
ValidateCollections(data) ==
    LET validated  == ValidateRelatedData(Collection(data, "images"),
                                          Collection(data, "sizes"),
                                          Collection(data, "styles"))
        mattresses == ValidateMattresses(Collection(data, "mattresses"))
    IN  IF validated.err # "ok" THEN validated
        ELSE IF mattresses.err # "ok" THEN mattresses
        ELSE Cleaned200(validated.cleaned @@ [mattresses |-> mattresses.cleaned])

\* int() accepts the text: digits, with blanks around them (signs and
\* underscores are not modelled).
IsNumber(text) ==
    /\ Strip(text) # <<>>
    /\ \A i \in 1..Len(Strip(text)) : Strip(text)[i] \in Range(Digits)

\* int() of a text of digits.
RECURSIVE ToInt(_)
ToInt(text) ==
    IF text = <<>> THEN 0
    ELSE 10 * ToInt(SubSeq(text, 1, Len(text) - 1))
         + (CHOOSE d \in 0..9 : Digits[d + 1] = text[Len(text)])

\* Product.objects.get(id=source_id) in try/except Product.DoesNotExist: the
\* product, None (0) when there is none, and ValueError for a text that is no
\* number, which the except clause does not name.
SourceProduct(raw, products) ==
    IF ~SourceGiven(raw) THEN [ok |-> TRUE, id |-> 0]
    ELSE IF raw.kind = "str" /\ ~IsNumber(raw.value) THEN [ok |-> FALSE, id |-> 0]
    ELSE LET id == IF raw.kind = "str" THEN ToInt(Strip(raw.value)) ELSE raw.value
         IN  [ok |-> TRUE, id |-> IF id \in products THEN id ELSE 0]

\* The loop over the cleaned mattresses: the rows are created one after the
\* other until a source_product raises; [rows, ok].
RECURSIVE CreateMattresses(_, _, _, _)
CreateMattresses(p, mattresses, first_id, products) ==
    IF mattresses = <<>> THEN [rows |-> {}, ok |-> TRUE]
    ELSE LET source == SourceProduct(Head(mattresses).source_product, products)
             rest   == CreateMattresses(p, Tail(mattresses), first_id + 1, products)
         IN  IF ~source.ok THEN [rows |-> {}, ok |-> FALSE]
             ELSE [rows |-> {[id |-> first_id, product |-> p, source_product |-> source.id,
                              name |-> Head(mattresses).name]} \cup rest.rows,
                   ok |-> rest.ok]

\* ProductViewSet.create: the collections are validated, then the serializer
\* (name, slug, dimension template), then the product row is saved, the
\* variant rows are created and the template link is handled.  An exception
\* after the product row was saved leaves what was written before it, unless
\* the request is atomic.
CreateProductData(data, rounding) ==
    /\ nextId.product <= MaxProductId
    /\ lastReq' = [op |-> "create_product_data", p |-> nextId.product, data |-> data]
    /\ \E validated \in {ValidateCollections(data)} :
       \E attrs \in {ValidatedAttrs(data, 0)} :
           IF validated.err # "ok"
           THEN /\ resp' = ValidationResponse(validated)
                /\ UNCHANGED <<product, variantVars, templateLink, nextId>>
           ELSE IF attrs.err # "ok"
           THEN /\ resp' = [status |-> 400, field |-> attrs.field]
                /\ UNCHANGED <<product, variantVars, templateLink, nextId>>
           ELSE \E p \in {nextId.product} :
                \E made \in {HandleRelatedData(p, validated.cleaned, rounding)} :
                \E mats \in {CreateMattresses(p, validated.cleaned.mattresses,
                                              nextId.mattress, DOMAIN product \cup {p})} :
                \E link \in {HandleDimensionTemplate(templateLink, p, attrs.obj)} :
                \E rollback \in {~(mats.ok /\ link.ok) /\ atomicRequests} :
                    /\ IdsWithinBounds(made.next)
                    /\ nextId.mattress + Cardinality(mats.rows) <= MaxMattressId + 1
                    /\ resp' = [status |-> IF mats.ok /\ link.ok THEN 201 ELSE 500,
                                field |-> ""]
                    /\ IF rollback
                       THEN UNCHANGED <<product, variantVars, templateLink, nextId>>
                       ELSE /\ product' = (p :> ProductRow(attrs.name, attrs.slug)) @@ product
                            /\ productImage' = productImage \cup made.images
                            /\ productSize' = productSize \cup made.sizes
                            /\ productStyle' = productStyle \cup made.styles
                            /\ productMattress' = productMattress \cup mats.rows
                            /\ templateLink' = IF mats.ok THEN link.links ELSE templateLink
                            /\ nextId' = [made.next EXCEPT
                                             !.product = @ + 1,
                                             !.mattress = @ + Cardinality(mats.rows)]
    /\ UNCHANGED <<atomicRequests, inflight, review, pfv, nextPfvId, categoryFilter,
                   dimensionRow, orderVars>>

\* ProductViewSet.update (always partial): the collections are validated,
\* the product is looked up, the serializer runs and the product row is
\* saved, the rows of every collection are deleted, the variant rows are
\* created from the cleaned lists and the template link is handled.
UpdateProductData(p, data, rounding) ==
    /\ lastReq' = [op |-> "update_product_data", p |-> p, data |-> data]
    /\ \E validated \in {ValidateCollections(data)} :
           IF validated.err # "ok"
           THEN /\ resp' = ValidationResponse(validated)
                /\ UNCHANGED <<product, variantVars, templateLink, nextId>>
           ELSE IF p \notin DOMAIN product
           THEN /\ resp' = [status |-> 404, field |-> ""]
                /\ UNCHANGED <<product, variantVars, templateLink, nextId>>
           ELSE \E attrs \in {ValidatedAttrs(data, p)} :
                IF attrs.err # "ok"
                THEN /\ resp' = [status |-> 400, field |-> attrs.field]
                     /\ UNCHANGED <<product, variantVars, templateLink, nextId>>
                ELSE \E made \in {HandleRelatedData(p, validated.cleaned, rounding)} :
                     \E mats \in {CreateMattresses(p, validated.cleaned.mattresses,
                                                   nextId.mattress, DOMAIN product)} :
                     \E link \in {HandleDimensionTemplate(templateLink, p, attrs.obj)} :
                     \E old_sizes \in {{sz \in productSize :
                                           sz.product = p /\ CleanedIsNotNone(data, "sizes")}} :
                     \E rollback \in {~(mats.ok /\ link.ok) /\ atomicRequests} :
                         /\ IdsWithinBounds(made.next)
                         /\ nextId.mattress + Cardinality(mats.rows) <= MaxMattressId + 1
                         /\ resp' = [status |-> IF mats.ok /\ link.ok THEN 200 ELSE 500,
                                     field |-> ""]
                         /\ IF rollback
                            THEN UNCHANGED <<product, variantVars, templateLink, nextId>>
                            ELSE /\ product' = [product EXCEPT
                                                   ![p] = ProductRow(attrs.name, attrs.slug)]
                                 /\ productImage' =
                                        {img \in productImage :
                                            ~(img.product = p
                                                /\ CleanedIsNotNone(data, "images"))}
                                        \cup made.images
                                 /\ productSize' = (productSize \ old_sizes) \cup made.sizes
                                 /\ productStyle' =
                                        {st \in WithoutSizes(productStyle, old_sizes) :
                                            ~(st.product = p
                                                /\ CleanedIsNotNone(data, "styles"))}
                                        \cup made.styles
                                 /\ productMattress' =
                                        {m \in productMattress :
                                            ~(m.product = p
                                                /\ CleanedIsNotNone(data, "mattresses"))}
                                        \cup mats.rows
                                 /\ templateLink' =
                                        IF mats.ok THEN link.links ELSE templateLink
                                 /\ nextId' = [made.next EXCEPT
                                                  !.mattress = @ + Cardinality(mats.rows)]
    /\ UNCHANGED <<atomicRequests, inflight, review, pfv, nextPfvId, categoryFilter,
                   dimensionRow, orderVars>>

\* The admin site adds a ProductDimensionTemplate for a product that has
\* none (the product column is unique).
AdminLinkTemplate(p, t) ==
    /\ p \in DOMAIN product
    /\ p \notin DOMAIN templateLink
    /\ t \in DimensionTemplateIds
    /\ templateLink' = (p :> t) @@ templateLink
    /\ lastReq' = [op |-> "admin_link", p |-> p, t |-> t]
    /\ resp' = NoResp
    /\ UNCHANGED <<atomicRequests, inflight, review, product, pfv, nextPfvId, categoryFilter,
                   dimensionRow, variantVars, orderVars, nextId>>

(***************************************************************************)
(* The payloads of the product writes.                                     *)
(***************************************************************************)
IntRef(n) == [kind |-> "int", value |-> n]

Null == [kind |-> "null", value |-> 0]

\* The payload with the key dimension_template added.
WithTemplate(data, ref) == data @@ [dimension_template |-> ref]

\* dimension_template of a payload: the two templates, an id without a
\* template, 0 and null.
TemplateRefs == {IntRef(1), IntRef(2), IntRef(3), IntRef(0), Null}

TemplateCreates ==
    {[name |-> <<"a">>]} \cup {WithTemplate([name |-> <<"a">>], ref) : ref \in TemplateRefs}

TemplateUpdates ==
    {[name |-> <<"b">>]} \cup {[dimension_template |-> ref] : ref \in TemplateRefs}

\* The database holds one product, made by a create with the name "a".
InitWrite ==
    /\ atomicRequests \in BOOLEAN
    /\ product = <<ProductRow(<<"a">>, <<"a">>)>>
    /\ pfv = {}
    /\ nextPfvId = 1
    /\ categoryFilter = <<>>
    /\ dimensionRow = <<>>
    /\ templateLink = <<>>
    /\ productImage = {}
    /\ productSize = {}
    /\ productStyle = {}
    /\ productMattress = {}
    /\ orders = <<>>
    /\ orderItem = {}
    /\ review = <<>>
    /\ inflight = <<>>
    /\ nextId = FirstIds(1)
    /\ lastReq = NoReq
    /\ resp = NoResp

NextTemplate ==
    \/ \E data \in TemplateCreates : CreateProductData(data, "half_even")
    \/ \E p \in 1..MaxProductId, data \in TemplateUpdates :
           UpdateProductData(p, data, "half_even")
    \/ \E p \in 1..MaxProductId, t \in DimensionTemplateIds : AdminLinkTemplate(p, t)

SpecTemplate == InitWrite /\ [][NextTemplate]_vars

\* An entry of `mattresses`.
MattressDict(name, source_product) == [name |-> name, source_product |-> source_product]

\* A create with one row in each collection; updates with the name only, with
\* one collection, with an empty collection and with two collections.
KeyCreates ==
    { [name |-> <<"a">>,
       images |-> <<[kind |-> "dict", url |-> <<"u">>]>>,
       sizes |-> <<SizeDict(<<"K">>, Num(0))>>,
       styles |-> <<StyleDict(<<"a">>, NoSizeRef, <<>>)>>,
       mattresses |-> <<MattressDict(<<"m">>, Null)>>] }

KeyUpdates ==
    { [name |-> <<"b">>],
      [images |-> <<[kind |-> "dict", url |-> <<"v">>]>>],
      [sizes |-> <<>>],
      [mattresses |-> <<MattressDict(<<"n">>, Null)>>],
      [sizes |-> <<SizeDict(<<"Q">>, Num(0))>>,
       styles |-> <<StyleDict(<<"b">>, NoSizeRef, <<>>)>>] }

NextUpdateKeys ==
    \/ \E data \in KeyCreates : CreateProductData(data, "half_even")
    \/ \E p \in 1..MaxProductId, data \in KeyUpdates :
           UpdateProductData(p, data, "half_even")

SpecUpdateKeys == InitWrite /\ [][NextUpdateKeys]_vars

StrRef(text) == [kind |-> "str", value |-> text]

\* `size` of a style: none, the name of the size of the payload in another
\* case, its id, a name and an id that match no size of the payload.
StyleSizeRefs == {NoSizeRef, StrRef(<<"k">>), StrRef(<<"z">>), IntRef(9)}

\* source_product of a mattress: none, the id of a product as a number and as
\* a text, the id of no product, and a text that is no number.
SourceRefs == {Null, IntRef(1), StrRef(<<"1">>), IntRef(9), StrRef(<<"a", "b", "c">>)}

\* The collections of the payloads with references: a size and a style that
\* refers to a size; one mattress; two mattresses, the second with a
\* source_product that is no number.
ReferenceCollections ==
    {[sizes |-> <<SizeDict(<<"K">>, Num(0))>>, styles |-> <<StyleDict(<<"a">>, ref, <<>>)>>] :
        ref \in StyleSizeRefs}
    \cup {[mattresses |-> <<MattressDict(<<"m">>, source)>>] : source \in SourceRefs}
    \cup {[mattresses |-> <<MattressDict(<<"m">>, IntRef(9)),
                            MattressDict(<<"n">>, StrRef(<<"a", "b", "c">>))>>]}

ReferenceCreates == {[name |-> <<"a">>] @@ collections : collections \in ReferenceCollections}

NextReferences ==
    \/ \E data \in ReferenceCreates : CreateProductData(data, "half_even")
    \/ \E p \in 1..MaxProductId, data \in ReferenceCollections :
           UpdateProductData(p, data, "half_even")

SpecReferences == InitWrite /\ [][NextReferences]_vars

\* A name as long as the slug column, with a dash where the suffix -1 of a
\* full-length slug begins: "aa...a-bc".
LongName ==
    [i \in 1..SlugMax |-> IF i = SlugMax - 2 THEN "-"
                          ELSE IF i = SlugMax - 1 THEN "b"
                          ELSE IF i = SlugMax THEN "c" ELSE "a"]

\* Creates by name (a plain name, a name with a capital and a blank, a name
\* without a letter, the long name), with a slug, and with a slug longer than
\* the serializer allows.
SlugCreates ==
    { [name |-> <<"a">>],
      [name |-> <<"A", " ", "b">>],
      [name |-> <<"!">>],
      [name |-> LongName],
      [name |-> <<"b">>, slug |-> <<"a">>],
      [name |-> <<"b">>, slug |-> TextOfLength(SlugFieldMax + 1)] }

\* Updates with neither name nor slug, with a name, and with a slug.
SlugUpdates ==
    { [images |-> <<>>],
      [name |-> <<"a">>],
      [slug |-> <<"a">>] }

NextSlug ==
    \/ \E data \in SlugCreates : CreateProductData(data, "half_even")
    \/ \E p \in 1..MaxProductId, data \in SlugUpdates :
           UpdateProductData(p, data, "half_even")

SpecSlug == InitWrite /\ [][NextSlug]_vars

(***************************************************************************)
(* Concurrent updates of one product.  ProductViewSet.update takes no lock *)
(* and the requests are served by different workers, so the statements of  *)
(* two updates interleave: each request is a process that first validates  *)
(* and saves the product row, then deletes the images of the product, then *)
(* creates its images one by one, then ends.  Without ATOMIC_REQUESTS      *)
(* every statement is committed at once; with it, the deletes and the rows *)
(* of a request are its own until the request ends (READ COMMITTED: a      *)
(* delete finds the rows committed when it runs; a delete that waits for a *)
(* row lock finds no more rows than that).                                 *)
(***************************************************************************)
ConcurrentRequests == {1, 2}

\* The rows that product.images.all().delete() deletes.
NoImages(p, images) == {}

DeletedImages(p, images) == {img \in images : img.product = p}

\* Lines 229-247 of update for request r: the collections are validated, the
\* product is found, the serializer saves the product row (the slug is made
\* again from the slug of the product).
BeginUpdate(r, p, images) ==
    /\ r \notin DOMAIN inflight
    /\ p \in DOMAIN product
    /\ \E validated \in {ValidateCollections([images |-> images])} :
       \E attrs \in {ValidatedAttrs([images |-> images], p)} :
           /\ validated.err = "ok"
           /\ attrs.err = "ok"
           /\ product' = [product EXCEPT ![p] = ProductRow(attrs.name, attrs.slug)]
           /\ inflight' = (r :> [pc |-> "delete", p |-> p,
                                 images |-> validated.cleaned.images,
                                 marked |-> {}, rows |-> {}, made |-> {},
                                 last |-> FALSE, overlap |-> FALSE]) @@ inflight
    /\ lastReq' = [op |-> "begin_update", r |-> r]
    /\ resp' = NoResp
    /\ UNCHANGED <<atomicRequests, review, pfv, nextPfvId, categoryFilter, dimensionRow,
                   templateLink, variantVars, orderVars, nextId>>

\* Line 250 for request r: the images of the product are deleted.  The
\* request notes that it is the last to delete, and whether the other request
\* was between its delete and its end at that time.
DeleteImagesStep(r) ==
    /\ r \in DOMAIN inflight
    /\ inflight[r].pc = "delete"
    /\ \E target \in {DeletedImages(inflight[r].p, productImage)} :
           /\ productImage' = IF atomicRequests THEN productImage
                              ELSE productImage \ target
           /\ inflight' =
                  [q \in DOMAIN inflight |->
                      IF q = r
                      THEN [inflight[r] EXCEPT
                               !.pc = IF inflight[r].images = <<>> THEN "end" ELSE "create",
                               !.marked = IF atomicRequests THEN {img.id : img \in target}
                                          ELSE {},
                               !.last = TRUE,
                               !.overlap = \E o \in DOMAIN inflight \ {r} :
                                               inflight[o].pc \in {"create", "end"}]
                      ELSE [inflight[q] EXCEPT !.last = FALSE]]
    /\ lastReq' = [op |-> "delete_images", r |-> r]
    /\ resp' = NoResp
    /\ UNCHANGED <<atomicRequests, review, product, pfv, nextPfvId, categoryFilter,
                   dimensionRow, templateLink, productSize, productStyle, productMattress,
                   orderVars, nextId>>

\* One turn of the loop of line 282-283 for request r: the next image of the
\* cleaned list is created.
CreateImageStep(r) ==
    /\ r \in DOMAIN inflight
    /\ inflight[r].pc = "create"
    /\ \E k \in {Cardinality(inflight[r].made) + 1} :
       \E row \in {[id |-> nextId.image, product |-> inflight[r].p,
                    url |-> inflight[r].images[k].url]} :
           /\ productImage' = IF atomicRequests THEN productImage
                              ELSE productImage \cup {row}
           /\ inflight' = [inflight EXCEPT
                              ![r].pc = IF k = Len(inflight[r].images) THEN "end"
                                        ELSE "create",
                              ![r].rows = IF atomicRequests THEN @ \cup {row} ELSE @,
                              ![r].made = @ \cup {row.id}]
           /\ nextId' = [nextId EXCEPT !.image = @ + 1]
    /\ lastReq' = [op |-> "create_image", r |-> r]
    /\ resp' = NoResp
    /\ UNCHANGED <<atomicRequests, review, product, pfv, nextPfvId, categoryFilter,
                   dimensionRow, templateLink, productSize, productStyle, productMattress,
                   orderVars>>

\* Lines 277-279 for request r: the template link is handled (the payload has
\* no dimension_template) and the request ends with 200; with
\* ATOMIC_REQUESTS its deletes and its rows are committed now.
EndUpdate(r) ==
    /\ r \in DOMAIN inflight
    /\ inflight[r].pc = "end"
    /\ productImage' = IF atomicRequests
                       THEN {img \in productImage : img.id \notin inflight[r].marked}
                            \cup inflight[r].rows
                       ELSE productImage
    /\ templateLink' = WithoutLink(templateLink, inflight[r].p)
    /\ inflight' = [inflight EXCEPT ![r].pc = "done"]
    /\ lastReq' = [op |-> "end_update", r |-> r]
    /\ resp' = [status |-> 200, field |-> ""]
    /\ UNCHANGED <<atomicRequests, review, product, pfv, nextPfvId, categoryFilter,
                   dimensionRow, productSize, productStyle, productMattress, orderVars,
                   nextId>>

\* The images of the two updates: none, one, two.
ConcurrentImages ==
    { <<>>,
      <<[kind |-> "dict", url |-> <<"u">>]>>,
      <<[kind |-> "dict", url |-> <<"v">>], [kind |-> "dict", url |-> <<"w">>]>> }

\* Product 1 has one image.
InitConcurrent ==
    /\ atomicRequests \in BOOLEAN
    /\ product = <<ProductRow(<<"a">>, <<"a">>)>>
    /\ pfv = {}
    /\ nextPfvId = 1
    /\ categoryFilter = <<>>
    /\ dimensionRow = <<>>
    /\ templateLink = <<>>
    /\ productImage = {[id |-> 1, product |-> 1, url |-> <<"o">>]}
    /\ productSize = {}
    /\ productStyle = {}
    /\ productMattress = {}
    /\ orders = <<>>
    /\ orderItem = {}
    /\ review = <<>>
    /\ inflight = <<>>
    /\ nextId = [FirstIds(1) EXCEPT !.image = 2]
    /\ lastReq = NoReq
    /\ resp = NoResp

NextConcurrent ==
    \/ \E r \in ConcurrentRequests, images \in ConcurrentImages : BeginUpdate(r, 1, images)
    \/ \E r \in ConcurrentRequests : DeleteImagesStep(r)
    \/ \E r \in ConcurrentRequests : CreateImageStep(r)
    \/ \E r \in ConcurrentRequests : EndUpdate(r)

SpecConcurrent == InitConcurrent /\ [][NextConcurrent]_vars

(***************************************************************************)
(* Reviews: ReviewViewSet.                                                 *)
(***************************************************************************)
\* Mutant: setdefault for every requester, the payload's is_visible kept.
PayloadVisibility(is_admin, raw) == IF raw.kind = "absent" THEN is_admin ELSE raw.value

\* ReviewViewSet.create: data["is_visible"] = False unless the requester is
\* staff, for whom data.setdefault("is_visible", True).
ReviewVisibility(is_admin, raw) ==
    IF ~is_admin THEN FALSE
    ELSE IF raw.kind = "absent" THEN TRUE
    ELSE raw.value

\* POST /reviews/ (AllowAny): the serializer wants an existing product;
\* created_by is the requester, None (0) for the anonymous one.
CreateReview(requester, product_id, raw_visible) ==
    /\ nextId.review <= MaxReviewId
    /\ lastReq' = [op |-> "create_review", user |-> requester, id |-> nextId.review,
                   product |-> product_id, is_visible |-> raw_visible]
    /\ IF product_id \notin DOMAIN product
       THEN /\ resp' = [status |-> 400, field |-> "product", ids |-> <<>>]
            /\ UNCHANGED <<review, nextId>>
       ELSE /\ review' = (nextId.review :>
                             [product |-> product_id,
                              is_visible |-> ReviewVisibility(requester \in Staff, raw_visible),
                              created_by |-> requester]) @@ review
            /\ nextId' = [nextId EXCEPT !.review = @ + 1]
            /\ resp' = [status |-> 201, field |-> "", ids |-> <<nextId.review>>]
    /\ UNCHANGED <<atomicRequests, inflight, product, pfv, nextPfvId, categoryFilter,
                   dimensionRow, templateLink, variantVars, orderVars>>

\* Mutant: the queryset of the reviews without the filter on is_visible.
EveryReviewOf(requester, product_id) ==
    {r \in DOMAIN review : product_id = 0 \/ review[r].product = product_id}

\* ReviewViewSet.get_queryset: the reviews of the product of the query
\* (every product when product_id is 0, no parameter), the visible ones only
\* unless the requester is staff.
GetQuerysetReviews(requester, product_id) ==
    {r \in DOMAIN review :
        /\ product_id = 0 \/ review[r].product = product_id
        /\ requester \in Staff \/ review[r].is_visible}

\* GET /reviews/?product= (AllowAny).
ListReviews(requester, product_id) ==
    /\ lastReq' = [op |-> "list_reviews", user |-> requester, id |-> 0,
                   product |-> product_id]
    /\ resp' = [status |-> 200, field |-> "",
                ids |-> NewestFirst(GetQuerysetReviews(requester, product_id))]
    /\ UNCHANGED <<atomicRequests, inflight, review, product, pfv, nextPfvId, categoryFilter,
                   dimensionRow, templateLink, variantVars, orderVars, nextId>>

\* GET /reviews/{id}/ (AllowAny): get_object on get_queryset, then 404 for a
\* hidden review unless the requester is staff.
RetrieveReview(requester, id) ==
    /\ lastReq' = [op |-> "retrieve_review", user |-> requester, id |-> id]
    /\ resp' = IF id \notin GetQuerysetReviews(requester, 0)
               THEN [status |-> 404, field |-> "", ids |-> <<>>]
               ELSE IF requester \notin Staff /\ ~review[id].is_visible
               THEN [status |-> 404, field |-> "", ids |-> <<>>]
               ELSE [status |-> 200, field |-> "", ids |-> <<id>>]
    /\ UNCHANGED <<atomicRequests, inflight, review, product, pfv, nextPfvId, categoryFilter,
                   dimensionRow, templateLink, variantVars, orderVars, nextId>>

\* IsAdminUser and get_object for the requests that write a review:
\* 401 for the anonymous requester, 403 for a requester who is not staff.
ReviewAccess(requester, id) ==
    IF requester = 0 THEN 401
    ELSE IF requester \notin Staff THEN 403
    ELSE IF id \in DOMAIN review THEN 200
    ELSE 404

\* raw_value of set_visibility as a boolean: a text is true when, stripped
\* and lower-cased, it is one of 1, true, yes, on; else bool(raw_value).
TruthyTexts == {<<"1">>, <<"t", "r", "u", "e">>, <<"y", "e", "s">>, <<"o", "n">>}

ParseVisibility(raw) ==
    IF raw.kind = "str" THEN Strip(Lower(raw.value)) \in TruthyTexts
    ELSE IF raw.kind = "bool" THEN raw.value
    ELSE FALSE

\* POST /reviews/{id}/set_visibility/ (IsAdminUser).
SetVisibility(requester, id, raw) ==
    /\ lastReq' = [op |-> "set_visibility", user |-> requester, id |-> id]
    /\ \E access \in {ReviewAccess(requester, id)} :
           /\ resp' = [status |-> access, field |-> "",
                       ids |-> IF access = 200 THEN <<id>> ELSE <<>>]
           /\ review' = IF access = 200
                        THEN [review EXCEPT ![id].is_visible = ParseVisibility(raw)]
                        ELSE review
    /\ UNCHANGED <<atomicRequests, inflight, product, pfv, nextPfvId, categoryFilter,
                   dimensionRow, templateLink, variantVars, orderVars, nextId>>

\* PUT and PATCH /reviews/{id}/ (IsAdminUser): the fields of the payload are
\* written (created_by is read-only); PUT wants the product.
UpdateReview(requester, id, data, partial) ==
    /\ lastReq' = [op |-> IF partial THEN "partial_update_review" ELSE "update_review",
                   user |-> requester, id |-> id]
    /\ \E access \in {ReviewAccess(requester, id)} :
           IF access # 200
           THEN /\ resp' = [status |-> access, field |-> "", ids |-> <<>>]
                /\ UNCHANGED review
           ELSE IF \/ ~partial /\ "product" \notin DOMAIN data
                   \/ "product" \in DOMAIN data /\ data.product \notin DOMAIN product
           THEN /\ resp' = [status |-> 400, field |-> "product", ids |-> <<>>]
                /\ UNCHANGED review
           ELSE /\ resp' = [status |-> 200, field |-> "", ids |-> <<id>>]
                /\ review' = [review EXCEPT ![id] =
                                 [f \in {"product", "is_visible", "created_by"} |->
                                     IF f \in DOMAIN data THEN data[f] ELSE review[id][f]]]
    /\ UNCHANGED <<atomicRequests, inflight, product, pfv, nextPfvId, categoryFilter,
                   dimensionRow, templateLink, variantVars, orderVars, nextId>>

\* DELETE /reviews/{id}/ (IsAdminUser).
DeleteReview(requester, id) ==
    /\ lastReq' = [op |-> "delete_review", user |-> requester, id |-> id]
    /\ \E access \in {ReviewAccess(requester, id)} :
           /\ resp' = [status |-> IF access = 200 THEN 204 ELSE access, field |-> "",
                       ids |-> <<>>]
           /\ review' = IF access = 200
                        THEN [r \in DOMAIN review \ {id} |-> review[r]]
                        ELSE review
    /\ UNCHANGED <<atomicRequests, inflight, product, pfv, nextPfvId, categoryFilter,
                   dimensionRow, templateLink, variantVars, orderVars, nextId>>

\* is_visible of a payload: absent, true, false; and the texts set_visibility
\* is sent.
RawVisibilities ==
    {Absent, [kind |-> "bool", value |-> TRUE], [kind |-> "bool", value |-> FALSE]}

RawVisibilityTexts ==
    {[kind |-> "str", value |-> <<" ", "T", "r", "u", "e">>],
     [kind |-> "str", value |-> <<"n", "o">>]}

ReviewUpdates ==
    {[product |-> 1], [product |-> 1, is_visible |-> TRUE], [is_visible |-> TRUE],
     [is_visible |-> FALSE]}

(***************************************************************************)
(* SpecReviews: reviews of product 1 written and read by the anonymous     *)
(* requester, the customer and staff.                                      *)
(***************************************************************************)
NextReviews ==
    \/ \E requester \in Requesters, product_id \in {1, 3}, raw \in RawVisibilities :
           CreateReview(requester, product_id, raw)
    \/ \E requester \in Requesters, product_id \in {0, 1} : ListReviews(requester, product_id)
    \/ \E requester \in Requesters, id \in 1..MaxReviewId :
           \/ RetrieveReview(requester, id)
           \/ \E raw \in RawVisibilities \cup RawVisibilityTexts :
                  SetVisibility(requester, id, raw)
           \/ \E data \in ReviewUpdates, partial \in BOOLEAN :
                  UpdateReview(requester, id, data, partial)
           \/ DeleteReview(requester, id)

SpecReviews == InitOrders /\ [][NextReviews]_vars

(***************************************************************************)
(* Claims about the filter-value synchronisation (SpecSync).               *)
(***************************************************************************)
\* The existing FilterOptions whose ids occur in a payload list.
DesiredOptions(fvs) == {OptId(fvs[i]) : i \in 1..Len(fvs)} \cap FilterOptionIds

\* C1: submitting the same filter_values list for a product twice in succession
\* through product update leaves the product's ProductFilterValue rows unchanged
\* by the second submission: the same rows with the same row ids.
C1_SameListTwiceKeepsRows ==
    [][ ( /\ lastReq.op = "update" /\ lastReq.has_fv /\ resp.status = 200
          /\ lastReq' = lastReq /\ resp'.status = 200 )
        => LinksOf(pfv', lastReq.p) = LinksOf(pfv, lastReq.p) ]_vars

\* C2: after the filter-value synchronisation of a product write for product P
\* with the list L, the options linked to P are exactly the existing
\* FilterOptions whose ids occur in L, and the links of every other product are
\* unchanged.
C2_SyncLinksExactly ==
    [][ ( /\ lastReq'.op \in {"create", "update"} /\ lastReq'.has_fv
          /\ lastReq'.p \in DOMAIN product' )
        => /\ LinkedOptions(pfv', lastReq'.p) = DesiredOptions(lastReq'.fv)
           /\ \A q \in DOMAIN product' \ {lastReq'.p} :
                  LinksOf(pfv', q) = LinksOf(pfv, q) ]_vars

\* C3: in every state reachable through product create and update no two
\* ProductFilterValue rows have the same (product, filter_option) pair, also
\* when the submitted list names an option id more than once.
C3_NoDuplicateLinks ==
    \A r1 \in pfv : \A r2 \in pfv :
        (r1.product = r2.product /\ r1.filter_option = r2.filter_option) => r1 = r2

\* C3's case: a write whose list names an existing option twice has been served.
C3_Witness ==
    /\ lastReq.op \in {"create", "update"}
    /\ lastReq.has_fv
    /\ \E i \in 1..Len(Cleaned(lastReq.fv)) : \E j \in 1..Len(Cleaned(lastReq.fv)) :
           i # j /\ Cleaned(lastReq.fv)[i] = Cleaned(lastReq.fv)[j]
    /\ resp.status = 500
    /\ LinksOf(pfv, lastReq.p) # {}

(***************************************************************************)
(* Claims about the product listing (SpecList).                            *)
(***************************************************************************)
\* Product p is linked to an option of type ft whose slug is one of the pieces
\* of the comma-separated value.
LinkedUnder(p, ft, value) ==
    \E r \in pfv :
        /\ r.product = p
        /\ FilterOption[r.filter_option].filter_type = ft
        /\ \E i \in 1..Len(Split(value)) :
               Split(value)[i] = FilterOption[r.filter_option].slug

\* The active filter types the query supplies a value for.
Supplied(params) == {ft \in ActiveFilterTypes : params[ft] # <<>>}

\* C4: a listing whose parameters are keyed by slugs of active FilterTypes
\* returns exactly the products that, for every supplied type, are linked to at
\* least one option of that type whose slug is in the comma-separated list (OR
\* within a type, AND across types), each matching product exactly once.
C4_ListingMatchesFacets ==
    (lastReq.op = "list" /\ lastReq.params["category"] = "")
    => /\ Range(resp.results) =
              {p \in DOMAIN product :
                  \A ft \in Supplied(lastReq.params) :
                      LinkedUnder(p, ft, lastReq.params[ft])}
       /\ \A i \in 1..Len(resp.results) : \A j \in 1..Len(resp.results) :
              resp.results[i] = resp.results[j] => i = j

\* C4's case: two types are supplied, one with a list of two slugs, and a
\* returned product is linked to two options of one supplied type.
C4_Witness ==
    /\ lastReq.op = "list"
    /\ Supplied(lastReq.params) = {"colour", "size"}
    /\ Len(Split(lastReq.params["colour"])) = 2
    /\ \E i \in 1..Len(resp.results) :
           Cardinality(JoinedRows(pfv, resp.results[i],
                                  Split(lastReq.params["colour"]), "colour")) = 2
    /\ \E p \in DOMAIN product : p \notin Range(resp.results)

\* The slugs of the options of type ft.
KnownSlugs(ft) == {FilterOption[o].slug : o \in {x \in FilterOptionIds :
                                                 FilterOption[x].filter_type = ft}}

\* The pieces joined by commas again.
RECURSIVE Join(_)
Join(pieces) ==
    IF pieces = <<>> THEN <<>>
    ELSE IF Len(pieces) = 1 THEN pieces[1]
    ELSE pieces[1] \o <<",">> \o Join(Tail(pieces))

\* The value with the pieces that are no option slug of the type left out.
KnownOnly(ft, value) ==
    Join(SelectSeq(Split(value), LAMBDA piece : piece \in KnownSlugs(ft)))

\* C5: unknown filter slugs are ignored without error: a parameter whose name
\* is not the slug of an active FilterType leaves the result unchanged, and an
\* option slug that does not exist under the named type contributes nothing
\* (the result for type=A,Z equals the result for type=A).
C5_UnknownSlugsIgnored ==
    lastReq.op = "list"
    => /\ resp.status = 200
       /\ resp.results = GetQueryset(product, pfv,
              [lastReq.params EXCEPT !["material"] = <<>>, !["q"] = <<>>])
       /\ \A ft \in Supplied(lastReq.params) :
              KnownOnly(ft, lastReq.params[ft]) # <<>>
              => resp.results = GetQueryset(product, pfv,
                     [lastReq.params EXCEPT ![ft] = KnownOnly(ft, lastReq.params[ft])])

\* C5's case: the query names the inactive type, and a supplied value mixes a
\* known slug with an unknown one, and the listing returns a product and leaves
\* one out that has no link under the inactive type.
C5_Witness ==
    /\ lastReq.op = "list"
    /\ lastReq.params["material"] # <<>>
    /\ \E i \in 1..Len(Split(lastReq.params["colour"])) :
           Split(lastReq.params["colour"])[i] \notin KnownSlugs("colour")
    /\ KnownOnly("colour", lastReq.params["colour"]) # <<>>
    /\ resp.results # <<>>
    /\ \E i \in 1..Len(resp.results) :
           ~ \E r \in pfv : /\ r.product = resp.results[i]
                            /\ FilterOption[r.filter_option].filter_type = "material"

(***************************************************************************)
(* Claims about the category facet listing (SpecFacets).                   *)
(***************************************************************************)
\* The filter types of the response, in its order.
ReturnedTypes == [k \in 1..Len(resp.filters) |-> resp.filters[k].slug]

\* C6: the product_count reported for every option of every returned filter
\* type equals the number of distinct products that are in stock, belong to the
\* category and are linked to that option.
C6_ProductCountIsLive ==
    (lastReq.op = "facets" /\ resp.status = 200)
    => \A k \in 1..Len(resp.filters) :
           \A n \in 1..Len(resp.filters[k].options) :
               resp.filters[k].options[n].product_count =
                   Cardinality({p \in DOMAIN product :
                       /\ product[p].in_stock
                       /\ product[p].category = lastReq.category
                       /\ resp.filters[k].options[n].id \in LinkedOptions(pfv, p)})

\* The active CategoryFilter rows that link filter type ft to the category,
\* directly or through one of its subcategories.
LinkingRows(category, ft) ==
    {i \in 1..Len(categoryFilter) :
        /\ categoryFilter[i].is_active
        /\ categoryFilter[i].filter_type = ft
        /\ \/ categoryFilter[i].category = category
           \/ \E sub \in DOMAIN SubCategory :
                  /\ SubCategory[sub].category = category
                  /\ categoryFilter[i].subcategory = sub}

\* C7: for an existing category the response holds exactly the FilterTypes
\* that are active and linked by an active CategoryFilter to the category or to
\* one of its subcategories, each exactly once.
C7_FacetTypesExactlyOnce ==
    (lastReq.op = "facets" /\ lastReq.category \in Categories)
    => /\ resp.status = 200
       /\ Range(ReturnedTypes) =
              {ft \in FilterTypeSlugs :
                  FilterType[ft].is_active /\ LinkingRows(lastReq.category, ft) # {}}
       /\ \A i \in 1..Len(ReturnedTypes) : \A j \in 1..Len(ReturnedTypes) :
              ReturnedTypes[i] = ReturnedTypes[j] => i = j

\* C7's case: a returned type is linked twice, to the category and to one of
\* its subcategories, and a linked inactive type is left out.
C7_Witness ==
    /\ lastReq.op = "facets"
    /\ resp.status = 200
    /\ \E k \in 1..Len(ReturnedTypes) :
           /\ Cardinality(LinkingRows(lastReq.category, ReturnedTypes[k])) = 2
           /\ \E i \in LinkingRows(lastReq.category, ReturnedTypes[k]) :
                  categoryFilter[i].subcategory # ""
           /\ \E i \in LinkingRows(lastReq.category, ReturnedTypes[k]) :
                  categoryFilter[i].category # ""

\* The alphabetical order of the filter type names.
NameRank(ft) == CASE FilterType[ft].name = "Bed Size" -> 1
                  [] FilterType[ft].name = "Colour"   -> 2
                  [] FilterType[ft].name = "Material" -> 3

\* The least display_order among the rows that link ft to the category.
MinDisplayOrder(category, ft) ==
    CHOOSE d \in {categoryFilter[i].display_order : i \in LinkingRows(category, ft)} :
        \A i \in LinkingRows(category, ft) : d <= categoryFilter[i].display_order

\* C8 (as stated): the returned filter types are ordered by display order with
\* ties broken by name, and the types flagged is_default come before all the
\* others.
C8_DefaultsFirstThenOrderThenName ==
    (lastReq.op = "facets" /\ resp.status = 200)
    => \A i \in 1..Len(ReturnedTypes) : \A j \in 1..Len(ReturnedTypes) :
           i < j =>
             LET a  == ReturnedTypes[i]
                 b  == ReturnedTypes[j]
                 da == MinDisplayOrder(lastReq.category, a)
                 db == MinDisplayOrder(lastReq.category, b)
             IN  /\ FilterType[b].is_default => FilterType[a].is_default
                 /\ da <= db
                 /\ da = db => NameRank(a) < NameRank(b)

\* C8 (amended): the returned filter types are in the order of the least
\* display_order of their active CategoryFilter rows in scope of the category;
\* neither the name nor is_default decides a place.
C8_OrderedByCategoryFilterOrder ==
    (lastReq.op = "facets" /\ resp.status = 200)
    => \A i \in 1..Len(ReturnedTypes) : \A j \in 1..Len(ReturnedTypes) :
           i < j => MinDisplayOrder(lastReq.category, ReturnedTypes[i])
                        <= MinDisplayOrder(lastReq.category, ReturnedTypes[j])

\* C8's case: two types are returned, linked with different display orders.
C8_Witness ==
    /\ lastReq.op = "facets"
    /\ resp.status = 200
    /\ Len(ReturnedTypes) = 2
    /\ MinDisplayOrder(lastReq.category, ReturnedTypes[1])
           < MinDisplayOrder(lastReq.category, ReturnedTypes[2])

(***************************************************************************)
(* Claims about the dimension table (SpecDims).                            *)
(***************************************************************************)
\* The response to GET /products/1/ and what it was computed from.
DimsAnswered == lastReq = [op |-> "retrieve", p |-> 1] /\ resp.status = 200

\* A map with the non-empty values of another one set over it.
Overlay(values, override) ==
    [k \in DOMAIN values \cup {x \in DOMAIN override : override[x] # <<>>} |->
        IF k \in DOMAIN override /\ override[k] # <<>> THEN override[k] ELSE values[k]]

\* The maps of the override rows of one name overlaid one after the other.
RECURSIVE OverlayAll(_, _, _)
OverlayAll(values, override_rows, measurement) ==
    IF override_rows = <<>> THEN values
    ELSE OverlayAll(IF Head(override_rows).measurement = measurement
                    THEN Overlay(values, Head(override_rows).values)
                    ELSE values,
                    Tail(override_rows), measurement)

\* The value map of the last override row of a name.
RECURSIVE LastValues(_, _)
LastValues(override_rows, measurement) ==
    IF override_rows[Len(override_rows)].measurement = measurement
    THEN override_rows[Len(override_rows)].values
    ELSE LastValues(SubSeq(override_rows, 1, Len(override_rows) - 1), measurement)

HasOverride(override_rows, measurement) ==
    \E i \in 1..Len(override_rows) : override_rows[i].measurement = measurement

\* C9 as the spec states it: the row of the table made from a template row has
\* the template's map with each non-empty value of the override rows of its
\* measurement name set for its size key (a template row without an override
\* keeps its map).
C9_EveryOverrideValueOverlaid ==
    DimsAnswered =>
        \A i \in 1..Len(resp.template_order) :
            LET row == dimensionRow[resp.template_order[i]]
            IN  resp.computed_dimensions[i].values =
                    OverlayAll(row.values, product[1].dimensions, row.measurement)

\* C9 (amended): the row of the table made from a template row has the
\* template's map with each non-empty value of the LAST override row of its
\* measurement name set for its size key; an empty override value changes
\* nothing, and a template row without an override keeps its map.
C9_LastOverrideRowOverlaid ==
    DimsAnswered =>
        \A i \in 1..Len(resp.template_order) :
            LET row == dimensionRow[resp.template_order[i]]
                out == resp.computed_dimensions[i]
            IN  /\ out.measurement = row.measurement
                /\ IF HasOverride(product[1].dimensions, row.measurement)
                   THEN out.values =
                            Overlay(row.values,
                                    LastValues(product[1].dimensions, row.measurement))
                   ELSE out.values = row.values

\* C9 witness: a template row whose last override sets one size and leaves a
\* size of the template empty, answered with a map that is not the template's.
C9_Witness ==
    /\ DimsAnswered
    /\ \E i \in 1..Len(resp.template_order) :
           LET row == dimensionRow[resp.template_order[i]]
           IN  /\ HasOverride(product[1].dimensions, row.measurement)
               /\ \E k \in DOMAIN row.values :
                      /\ k \in DOMAIN LastValues(product[1].dimensions, row.measurement)
                      /\ LastValues(product[1].dimensions, row.measurement)[k] = <<>>
                      /\ resp.computed_dimensions[i].values[k] = row.values[k]
               /\ resp.computed_dimensions[i].values # row.values

TemplateNames ==
    {dimensionRow[resp.template_order[i]].measurement : i \in DOMAIN resp.template_order}

\* The override rows whose name is in no template row, as they are stored.
RECURSIVE UnmatchedRows(_, _)
UnmatchedRows(override_rows, names) ==
    IF override_rows = <<>> THEN <<>>
    ELSE (IF Head(override_rows).measurement \in names THEN <<>>
          ELSE <<Head(override_rows)>>) \o UnmatchedRows(Tail(override_rows), names)

\* One row per name that is in no template row, at the place of the first
\* override row of the name and with the values of the last one.
RECURSIVE UnmatchedNames(_, _, _)
UnmatchedNames(override_rows, names, all_rows) ==
    IF override_rows = <<>> THEN <<>>
    ELSE LET m == Head(override_rows).measurement
         IN  (IF m \in names THEN <<>>
              ELSE <<[measurement |-> m, values |-> LastValues(all_rows, m)]>>)
             \o UnmatchedNames(Tail(override_rows), names \cup {m}, all_rows)

\* The first rows of the table are the template's rows, display_order not
\* decreasing, and the table ends with `tail`.
TemplateRowsThen(tail) ==
    LET n == Len(resp.template_order)
    IN  /\ Len(resp.computed_dimensions) = n + Len(tail)
        /\ {resp.template_order[i] : i \in 1..n} =
               (IF templateLink = <<>> THEN {} ELSE DOMAIN dimensionRow)
        /\ \A i \in 1..n :
               resp.computed_dimensions[i].measurement =
                   dimensionRow[resp.template_order[i]].measurement
        /\ \A i \in 1..n : \A j \in 1..n :
               i < j => dimensionRow[resp.template_order[i]].display_order
                            <= dimensionRow[resp.template_order[j]].display_order
        /\ \A j \in 1..Len(tail) : resp.computed_dimensions[n + j] = tail[j]

\* C10 as the spec states it: the table is one row per template row in the
\* template's display order, then every override row whose measurement name
\* is in no template row, as stored and in the order of the override list;
\* without a template and without overrides it is empty.
C10_UnmatchedOverridesVerbatim ==
    DimsAnswered =>
        /\ TemplateRowsThen(UnmatchedRows(product[1].dimensions, TemplateNames))
        /\ (templateLink = <<>> /\ product[1].dimensions = <<>>)
               => resp.computed_dimensions = <<>>

\* C10 (amended): the table is one row per template row in the template's
\* display order, then one row per measurement name of the override list that
\* is in no template row, in the order in which the names first appear and
\* with the value map of the last override row of the name; without a
\* template and without overrides it is empty.
C10_UnmatchedNamesOnce ==
    DimsAnswered =>
        /\ TemplateRowsThen(UnmatchedNames(product[1].dimensions, TemplateNames,
                                           product[1].dimensions))
        /\ (templateLink = <<>> /\ product[1].dimensions = <<>>)
               => resp.computed_dimensions = <<>>

\* C10 witness: a template whose two rows are stored against their display
\* order, an override of a template row and an override of a name the
\* template lacks, which closes the table.
C10_Witness ==
    /\ DimsAnswered
    /\ Len(resp.template_order) = 2
    /\ dimensionRow[1].display_order > dimensionRow[2].display_order
    /\ Len(product[1].dimensions) = 2
    /\ product[1].dimensions[1].measurement \notin TemplateNames
    /\ product[1].dimensions[2].measurement \in TemplateNames
    /\ Len(resp.computed_dimensions) = 3
    /\ resp.computed_dimensions[3] = product[1].dimensions[1]

(***************************************************************************)
(* Claims about the variant normalizer (SpecVariants, SpecNormalize).      *)
(***************************************************************************)
\* The rules of the payload, as the spec gives them: an image is an object
\* whose url fits its column; a size has a name that fits its column and a
\* price_delta that is a number; a style has a name that fits its column and,
\* stripped and dashed, is made of letters, digits, dashes and underscores.
TokenChars == Range(UpperCase) \cup Range(LowerCase) \cup Range(Digits) \cup {"-", "_"}

ImageRuleBroken(img) == img.kind # "dict" \/ Len(Strip(img.url)) > ImageUrlMax

SizeRuleBroken(size) ==
    /\ size.kind = "dict"
    /\ Strip(size.name) # <<>>
    /\ \/ Len(Strip(size.name)) > SizeNameMax
       \/ size.price_delta.kind \notin {"num", "absent"}

StyleRuleBroken(style) ==
    \/ Len(Strip(style.name)) > StyleNameMax
    \/ \E i \in 1..Len(Strip(style.name)) :
           ReplaceSpaces(Strip(style.name))[i] \notin TokenChars

BrokenFields(req) ==
    {f \in {"images", "sizes", "styles"} :
        \/ f = "images" /\ \E i \in 1..Len(req.images) : ImageRuleBroken(req.images[i])
        \/ f = "sizes" /\ \E i \in 1..Len(req.sizes) : SizeRuleBroken(req.sizes[i])
        \/ f = "styles" /\ \E i \in 1..Len(req.styles) : StyleRuleBroken(req.styles[i])}

\* C11: a product create or update whose images, sizes or styles break a
\* length or type rule is answered with a validation error keyed by a
\* collection that breaks one, and changes no product row and no variant row.
C11_RuleViolationIsFieldError ==
    [][(/\ lastReq'.op \in {"create_product", "update_product"}
        /\ BrokenFields(lastReq') # {})
       => /\ resp'.status = 400
          /\ resp'.field \in BrokenFields(lastReq')
          /\ UNCHANGED <<product, variantVars>>]_vars

\* C12: every persisted style name is made of letters, digits, dashes and
\* underscores only, and a create whose images and sizes are in order and
\* whose style name has another character after stripping and dashing is
\* answered with a validation error.
C12_StyleNamesAreTokens ==
    /\ \A st \in productStyle : \A i \in 1..Len(st.name) : st.name[i] \in TokenChars
    /\ (/\ lastReq.op = "create_product"
        /\ BrokenFields(lastReq) = {"styles"})
       => resp.status = 400 /\ resp.field = "styles"

OptionFields == {"label", "description", "icon_url", "price_delta", "sizes"}

\* C13: every persisted style option, submitted as a bare string or as an
\* object, has exactly the fields label, description, icon_url, price_delta
\* and sizes, and the single `size` submitted with an option is in its sizes.
C13_OptionsHaveUniformShape ==
    \A st \in productStyle : \A i \in 1..Len(st.options) :
        /\ DOMAIN st.options[i] = OptionFields
        /\ \A k \in 1..Len(lastReq.styles) : \A j \in 1..Len(lastReq.styles[k].options) :
               LET option == lastReq.styles[k].options[j]
               IN  (/\ option.kind = "dict"
                    /\ ReplaceSpaces(Strip(option.label)) = st.options[i].label
                    /\ Strip(option.size) # <<>>)
                   => Strip(option.size) \in Range(st.options[i].sizes)

\* C14: the size of every ProductStyle is null or a ProductSize of the
\* product of the style.
C14_StyleSizeOfSameProduct ==
    \A st \in productStyle :
        st.size = 0 \/ \E sz \in productSize : sz.id = st.size /\ sz.product = st.product

\* C14 witness: product 2 was written with a style that names by its id a
\* size of product 1 and got no size, next to a style of product 1 with a size.
C14_Witness ==
    /\ lastReq.op \in {"create_product", "update_product"}
    /\ resp.status \in {200, 201}
    /\ lastReq.p = 2
    /\ \E k \in 1..Len(lastReq.styles) :
           /\ lastReq.styles[k].size.kind = "int"
           /\ \E sz \in productSize :
                  sz.id = lastReq.styles[k].size.value /\ sz.product = 1
    /\ \E st \in productStyle : st.product = 2 /\ st.size = 0
    /\ \E st \in productStyle : st.product = 1 /\ st.size # 0

\* The submitted sizes are valid: names that are not blank and fit the column,
\* price_delta values that are numbers.
ValidSizes(sizes) ==
    \A i \in 1..Len(sizes) :
        /\ Strip(IF sizes[i].kind = "dict" THEN sizes[i].name ELSE sizes[i].value) # <<>>
        /\ ~SizeRuleBroken(sizes[i])

SubmittedDelta(size) ==
    IF size.kind = "dict" /\ size.price_delta.kind = "num" THEN size.price_delta.mills
    ELSE 0

\* C15: a product created with valid sizes is read again with the same sizes
\* in the submitted order, each with the submitted price_delta.
C15_SizesRoundTrip ==
    (/\ lastReq.op = "retrieve_product"
     /\ ValidSizes(lastReq.sizes))
    => /\ Len(resp.sizes) = Len(lastReq.sizes)
       /\ \A i \in 1..Len(resp.sizes) :
              /\ resp.sizes[i].name =
                     Strip(IF lastReq.sizes[i].kind = "dict" THEN lastReq.sizes[i].name
                           ELSE lastReq.sizes[i].value)
              /\ resp.sizes[i].price_delta = SubmittedDelta(lastReq.sizes[i])


(***************************************************************************)
(* Claims about the order capture.                                         *)
(***************************************************************************)
\* The item of the table written for the i-th item of the last request.
RowOfItem(i) == CHOOSE row \in orderItem : row.id = i

HoldsSubmitted(row, item) ==
    /\ row.product = item.product_id
    /\ row.quantity = item.quantity.value
    /\ row.price = item.price.mills
    /\ row.size = TextOrEmpty(item.size)
    /\ row.extras_total = item.extras_total
    /\ item.include_dimension.kind = "bool" =>
           row.include_dimension = item.include_dimension.value
    /\ item.include_dimension.kind = "absent" => row.include_dimension

\* C16: after a successful order creation with n items there is exactly one
\* order and exactly n items of it, the i-th row holding the product id,
\* quantity, price, size, extras_total and include_dimension submitted for the
\* i-th item, and the user of the order is the requester (0, null, for the
\* anonymous one) whatever user the payload names.
C16_ItemsHoldSubmittedValues ==
    (lastReq.op = "create_order" /\ resp.status = 201) =>
        /\ DOMAIN orders = {lastReq.id}
        /\ orders[lastReq.id].user = lastReq.user
        /\ Cardinality(orderItem) = Len(lastReq.items)
        /\ \A row \in orderItem : row.order = lastReq.id
        /\ \A i \in 1..Len(lastReq.items) :
               /\ \E row \in orderItem : row.id = i
               /\ HoldsSubmitted(RowOfItem(i), lastReq.items[i])

\* C17: an order creation that fails on one of its items leaves no order and
\* no item behind: both tables are as they were before the request.
C17_CreationIsAllOrNothing ==
    [][(lastReq'.op = "create_order" /\ resp'.status = 500) =>
           (orders' = orders /\ orderItem' = orderItem)]_vars

\* A creation of two items has failed on the second one, after the order and
\* the first item had been written, and nothing of it is stored.
C17_Witness ==
    /\ lastReq.op = "create_order"
    /\ resp.status = 500
    /\ Len(lastReq.items) = 2
    /\ ItemInsertable(lastReq.items[1])
    /\ ~ItemInsertable(lastReq.items[2])
    /\ orders = <<>>
    /\ orderItem = {}

MarkOps == {"mark_paid", "mark_shipped", "mark_delivered", "mark_cancelled"}

\* C18: a mark_paid, mark_shipped, mark_delivered or mark_cancelled request
\* changes nothing but the status of the order it names: the other fields of
\* that order, every item and every other order stay as they were.
C18_MarkChangesOnlyStatus ==
    [][lastReq'.op \in MarkOps =>
           /\ orderItem' = orderItem
           /\ DOMAIN orders' = DOMAIN orders
           /\ \A o \in DOMAIN orders :
                  /\ o # lastReq'.id => orders'[o] = orders[o]
                  /\ \A f \in OrderFields \ {"status"} : orders'[o][f] = orders[o][f]]_vars

\* mark_paid has been answered for an order with an item while another order
\* exists: the order is paid and still has its total and its item.
C18_Witness ==
    /\ lastReq.op = "mark_paid"
    /\ resp.status = 200
    /\ DOMAIN orders = {1, 2}
    /\ orders[lastReq.id].status = "paid"
    /\ orders[lastReq.id].total_amount = 10000
    /\ \E row \in orderItem : row.order = lastReq.id

\* C19: no request changes a field other than status of an order that exists,
\* nor any of the items of such an order.
C19_OnlyStatusMutates ==
    [][\A o \in DOMAIN orders \cap DOMAIN orders' :
           /\ \A f \in OrderFields \ {"status"} : orders'[o][f] = orders[o][f]
           /\ \A row \in orderItem : row.order = o => row \in orderItem']_vars

\* The place of a status in the lifecycle pending, paid, shipped, delivered.
StatusRank(status) ==
    CASE status = "pending" -> 1
      [] status = "paid" -> 2
      [] status = "shipped" -> 3
      [] status = "delivered" -> 4
      [] OTHER -> 0

\* C20: the status of an order changes only forward in the lifecycle pending,
\* paid, shipped, delivered, or to cancelled; a cancelled order stays
\* cancelled.
C20_StatusMovesForwardOrCancels ==
    [][\A o \in DOMAIN orders \cap DOMAIN orders' :
           orders'[o].status # orders[o].status =>
               \/ orders'[o].status = "cancelled"
               \/ /\ orders[o].status # "cancelled"
                  /\ StatusRank(orders'[o].status) > StatusRank(orders[o].status)]_vars

\* The orders of the last answer.
ReturnedOrders == {resp.ids[i] : i \in 1..Len(resp.ids)}

ReadOps == {"list_orders", "retrieve_order"}

\* C21: a creation is never refused for who the requester is; every order a
\* list or retrieve returns to a requester who is not staff has that requester
\* as its user, the anonymous requester is returned no order, and staff is
\* returned every order by list and any order by retrieve.
C21_ReadsOwnOrdersOnly ==
    /\ lastReq.op = "create_order" => resp.status = 201
    /\ lastReq.op \in ReadOps =>
           /\ ReturnedOrders \subseteq DOMAIN orders
           /\ lastReq.user = 0 => ReturnedOrders = {}
           /\ lastReq.user \notin Staff =>
                  \A o \in ReturnedOrders : orders[o].user = lastReq.user
    /\ (lastReq.op = "list_orders" /\ lastReq.user \in Staff) =>
           ReturnedOrders = DOMAIN orders
    /\ (lastReq.op = "retrieve_order" /\ lastReq.user \in Staff
            /\ lastReq.id \in DOMAIN orders) => ReturnedOrders = {lastReq.id}

\* The customer lists the orders and is returned their own, while the order
\* of an anonymous requester exists too.
C21_Witness ==
    /\ lastReq.op = "list_orders"
    /\ lastReq.user = 1
    /\ resp.status = 200
    /\ ReturnedOrders # {}
    /\ \E o \in DOMAIN orders : orders[o].user = 0

\* C30: an order that has just been created has the status pending, whatever
\* the payload of the creation holds.
C30_CreatedOrdersArePending ==
    (lastReq.op = "create_order" /\ resp.status = 201) =>
        orders[lastReq.id].status = "pending"

(***************************************************************************)
(* Claims about the reviews.                                               *)
(***************************************************************************)
\* C22: a review created by a requester who is not staff is stored hidden
\* whatever is_visible the payload holds; a review created by staff is stored
\* visible unless the payload holds is_visible, which is then stored.
C22_CustomerReviewsStartHidden ==
    (lastReq.op = "create_review" /\ resp.status = 201) =>
        /\ lastReq.user \notin Staff => ~review[lastReq.id].is_visible
        /\ (lastReq.user \in Staff /\ lastReq.is_visible.kind = "absent") =>
               review[lastReq.id].is_visible
        /\ (lastReq.user \in Staff /\ lastReq.is_visible.kind = "bool") =>
               review[lastReq.id].is_visible = lastReq.is_visible.value

\* The anonymous requester has created a review with is_visible true in the
\* payload, and the review is stored hidden.
C22_Witness ==
    /\ lastReq.op = "create_review"
    /\ resp.status = 201
    /\ lastReq.user = 0
    /\ lastReq.is_visible = [kind |-> "bool", value |-> TRUE]
    /\ ~review[lastReq.id].is_visible

StaffVisibilityOps == {"set_visibility", "update_review", "partial_update_review"}

\* C29: a list or retrieve by a requester who is not staff returns visible
\* reviews only, and a hidden review becomes visible only by set_visibility
\* or an update sent by staff.
C29_HiddenUntilStaffShows ==
    [][/\ (lastReq'.op \in {"list_reviews", "retrieve_review"}
              /\ lastReq'.user \notin Staff) =>
              \A i \in 1..Len(resp'.ids) : review'[resp'.ids[i]].is_visible
       /\ \A r \in DOMAIN review \cap DOMAIN review' :
              (~review[r].is_visible /\ review'[r].is_visible) =>
                  (lastReq'.user \in Staff /\ lastReq'.op \in StaffVisibilityOps)]_vars

\* The customer lists the reviews while a hidden one exists and is returned
\* a review of the anonymous requester that staff has made visible.
C29_Witness ==
    /\ lastReq.op = "list_reviews"
    /\ lastReq.user = 1
    /\ \E r \in DOMAIN review : ~review[r].is_visible
    /\ \E i \in 1..Len(resp.ids) :
           /\ review[resp.ids[i]].is_visible
           /\ review[resp.ids[i]].created_by = 0

(***************************************************************************)
(* Claims about the dimension-template link of a product write.            *)
(***************************************************************************)
\* The tables of the database.
dbVars == <<product, pfv, categoryFilter, dimensionRow, templateLink, variantVars,
            orderVars, review>>

ProductWriteOps == {"create_product_data", "update_product_data"}

\* The request in lastReq is a write of a product that exists (an update) or
\* is being made (a create), with dimension_template the id n >= 1.
NamesTemplate(req, products) ==
    /\ req.op \in ProductWriteOps
    /\ req.op = "update_product_data" => req.p \in products
    /\ "dimension_template" \in DOMAIN req.data
    /\ req.data.dimension_template.kind = "int"
    /\ req.data.dimension_template.value >= 1

\* C24: a create or update that names an existing dimension template T
\* succeeds and leaves the product with its one link pointing to T; a write
\* that names an id without a template is answered 400 and changes no table.
C24_NamedTemplateIsLinked ==
    [][NamesTemplate(lastReq', DOMAIN product) =>
          IF lastReq'.data.dimension_template.value \in DimensionTemplateIds
          THEN /\ resp'.status \in {200, 201}
               /\ lastReq'.p \in DOMAIN templateLink'
               /\ templateLink'[lastReq'.p] = lastReq'.data.dimension_template.value
          ELSE /\ resp'.status = 400
               /\ UNCHANGED dbVars]_vars

\* C27: an update of an existing product whose payload has no
\* dimension_template key leaves the link of the product as it was.
C27_AbsentTemplateKeepsLink ==
    [][(/\ lastReq'.op = "update_product_data"
        /\ lastReq'.p \in DOMAIN product
        /\ "dimension_template" \notin DOMAIN lastReq'.data)
       => UNCHANGED templateLink]_vars

(***************************************************************************)
(* Claims about the collections of a product update.                       *)
(***************************************************************************)
\* The rows of a variant table that belong to product p.
RowsOfProduct(table, p) == {row \in table : row.product = p}

\* C26: a successful update of a product leaves the rows of every variant
\* collection whose key is not in the payload as they were.
C26_AbsentCollectionsKeepRows ==
    [][(/\ lastReq'.op = "update_product_data"
        /\ lastReq'.p \in DOMAIN product
        /\ resp'.status = 200)
       => LET p    == lastReq'.p
              keys == DOMAIN lastReq'.data
          IN  /\ "images" \notin keys => RowsOfProduct(productImage', p) = RowsOfProduct(productImage, p)
              /\ "sizes" \notin keys => RowsOfProduct(productSize', p) = RowsOfProduct(productSize, p)
              /\ "styles" \notin keys => RowsOfProduct(productStyle', p) = RowsOfProduct(productStyle, p)
              /\ "mattresses" \notin keys
                     => RowsOfProduct(productMattress', p) = RowsOfProduct(productMattress, p)]_vars

(***************************************************************************)
(* Claims about the references of a product write.                         *)
(***************************************************************************)
\* The product that source_product names, 0 when it names none.
NamedProduct(raw, products) ==
    IF raw.kind = "int" /\ raw.value \in products THEN raw.value
    ELSE IF raw.kind = "str" /\ \E q \in products : Str(q) = raw.value
    THEN CHOOSE q \in products : Str(q) = raw.value
    ELSE 0

\* The sizes among `created` that the size reference of a style names, by
\* name (whatever the case) or by id.
NamedSizes(raw, created) ==
    IF raw.kind = "none" THEN {}
    ELSE LET key == IF raw.kind = "int" THEN Str(raw.value) ELSE Lower(Strip(raw.value))
         IN  {sz \in created : Lower(Strip(sz.name)) = key \/ Str(sz.id) = key}

\* C25: a product write whose payload passes validation succeeds whatever its
\* references are: every style of the payload is stored, with a null size
\* when its size reference names no size created by the request, and every
\* mattress is stored, with a null source_product when its source_product
\* names no product.
C25_UnresolvedReferencesBecomeNull ==
    [][(/\ lastReq'.op \in ProductWriteOps
        /\ resp'.status \notin {400, 404})
       => LET p          == lastReq'.p
              styles     == Collection(lastReq'.data, "styles")
              mattresses == Collection(lastReq'.data, "mattresses")
              created    == {sz \in productSize' : sz.product = p /\ sz.id >= nextId.size}
          IN  /\ resp'.status \in {200, 201}
              /\ \A i \in 1..Len(styles) :
                     \E st \in productStyle' :
                         /\ st.product = p
                         /\ st.id = nextId.style + i - 1
                         /\ NamedSizes(styles[i].size, created) = {} => st.size = 0
              /\ \A i \in 1..Len(mattresses) :
                     \E m \in productMattress' :
                         /\ m.product = p
                         /\ m.id = nextId.mattress + i - 1
                         /\ m.source_product
                                = NamedProduct(mattresses[i].source_product, DOMAIN product')]_vars

(***************************************************************************)
(* Claims about the slug of a product.                                     *)
(***************************************************************************)
\* No two products have the same slug, and every slug fits the column.
SlugsAreDistinct ==
    /\ \A p, q \in DOMAIN product : p # q => product[p].slug # product[q].slug
    /\ \A p \in DOMAIN product : Len(product[p].slug) <= SlugMax

\* C28: the slugs of the products are pairwise distinct and fit the slug
\* column after every create and update, and a successful update whose
\* payload has neither slug nor name leaves the slug of the product as it
\* was.
C28_SlugsDistinctAndStable ==
    /\ []SlugsAreDistinct
    /\ [][(/\ lastReq'.op = "update_product_data"
           /\ resp'.status = 200
           /\ {"slug", "name"} \cap DOMAIN lastReq'.data = {})
          => product'[lastReq'.p].slug = product[lastReq'.p].slug]_vars

(***************************************************************************)
(* Claims about concurrent updates of a product.                           *)
(***************************************************************************)
\* Both updates have ended.
BothDone ==
    /\ DOMAIN inflight = ConcurrentRequests
    /\ \A r \in ConcurrentRequests : inflight[r].pc = "done"

\* The ids of the images of product p.
ImageIds(p) == {img.id : img \in RowsOfProduct(productImage, p)}

\* The urls of the images with the ids `ids`, in the order of the ids.
RECURSIVE UrlsInOrder(_)
UrlsInOrder(ids) ==
    IF ids = {} THEN <<>>
    ELSE LET first == CHOOSE i \in ids : \A j \in ids : i <= j
         IN  <<(CHOOSE img \in productImage : img.id = first).url>>
             \o UrlsInOrder(ids \ {first})

\* The urls that request r submitted.
SubmittedUrls(r) == [i \in 1..Len(inflight[r].images) |-> inflight[r].images[i].url]

\* C23: when two updates of a product have ended, its images are rows of the
\* two requests and among them are all rows of the request that deleted last;
\* rows of the other request are among them only if that request had deleted
\* and not ended when the last delete ran.
C23_FinalRowsComeFromBothRequests ==
    BothDone =>
        \A r \in ConcurrentRequests :
            inflight[r].last =>
                /\ ImageIds(1) \subseteq inflight[1].made \cup inflight[2].made
                /\ inflight[r].made \subseteq ImageIds(1)
                /\ ~inflight[r].overlap => ImageIds(1) = inflight[r].made

\* Two updates have ended and the images of the product are neither what the
\* one nor what the other request submitted: they are rows of both.
C23_Witness ==
    /\ BothDone
    /\ \A r \in ConcurrentRequests :
           /\ UrlsInOrder(ImageIds(1)) # SubmittedUrls(r)
           /\ inflight[r].made \cap ImageIds(1) # {}

====
